---- MODULE Spec2Model ----
(***************************************************************************)
(* Il Mostro 5.0 - yellow-card prediction.                                 *)
(*                                                                         *)
(* The model follows src/optimized_prediction_model.py                     *)
(* (OptimizedCardPredictionModel) and the dashboard pipeline of            *)
(* src/app.py with src/enhanced_prediction_model_v2.py.                    *)
(*                                                                         *)
(* Numbers.  The code computes with IEEE doubles.  Here every real is a    *)
(* fixed-point integer: the real x is the integer x * Unit, truncated.     *)
(* The columns that hold whole numbers in the spreadsheet (cards, 90s      *)
(* played, 90s per card, fouls per card, minutes of delay) are kept as     *)
(* plain integers.  The float value "not a number" is the value NaN below, *)
(* and the operators that meet it treat it as numpy / pandas / Python do.  *)
(***************************************************************************)
EXTENDS Integers, Sequences, FiniteSets, TLC

\* 1.0 in fixed point
Unit == 10 ^ 4

\* the float NaN (0/0); no defined quantity of the model is this negative
NaN == 0 - (10 ^ 9)

IsNaN(x) == x = NaN

(***************************************************************************)
(* Bounds of the model.                                                    *)
(***************************************************************************)
\* largest number of rows of one team sheet passed to one prediction
MaxTeamSize == 4

(***************************************************************************)
(* State.                                                                  *)
(***************************************************************************)
VARIABLES
    home_df,      \* the caller's table of the home team
    away_df,      \* the caller's table of the away team
    referee_df,   \* the caller's referee table (zero rows or one)
    WEIGHTS,      \* the module-level dict that self.weights aliases
    result,       \* <<>> or <<the dict returned by the last call>>
    phase,        \* "idle", "done" or "error"
    op,           \* the last operation: "none", "predict", "repeat", "exclude"
    session       \* the dashboard session: what was loaded and what is selected

vars == <<home_df, away_df, referee_df, WEIGHTS, result, phase, op, session>>


(***************************************************************************)
(* Arithmetic helpers.                                                     *)
(***************************************************************************)
Abs(x) == IF x < 0 THEN 0 - x ELSE x

\* division truncating toward zero (symmetric in the sign of a); b > 0
Div(a, b) == IF a >= 0 THEN a \div b ELSE 0 - ((0 - a) \div b)

\* np.clip(x, lo, hi): NaN stays NaN
Clip(x, lo, hi) == IF IsNaN(x) THEN NaN ELSE IF x < lo THEN lo ELSE IF x > hi THEN hi ELSE x

\* a / b for a float numerator and denominator, result in fixed point
\* clipped to [0, 1]: 0/0 is NaN, x/0 is +-inf which the clip saturates
ClipRatio01(a, b) ==
    IF b = 0
    THEN (IF a = 0 THEN NaN ELSE IF a > 0 THEN Unit ELSE 0)
    ELSE Clip(Div(a * Unit, b), 0, Unit)

\* float addition / scaling with NaN propagation
AddF(a, b) == IF IsNaN(a) \/ IsNaN(b) THEN NaN ELSE a + b
Pct(x, p) == IF IsNaN(x) THEN NaN ELSE Div(x * p, 100)

\* Python's max(a, b): returns a unless b > a; a comparison with NaN is False
PyMax(a, b) == IF IsNaN(a) \/ IsNaN(b) THEN a ELSE IF b > a THEN b ELSE a

RECURSIVE SumSeq(_)
SumSeq(s) == IF s = <<>> THEN 0 ELSE Head(s) + SumSeq(Tail(s))

\* s restricted to the elements that satisfy Test, order kept (boolean indexing)
SelectRows(s, Test(_)) == SelectSeq(s, Test)

\* the rows of s at the positions of the index set I, in the order of s
RECURSIVE PickRows(_, _, _)
PickRows(s, I, i) ==
    IF i > Len(s) THEN <<>>
    ELSE (IF i \in I THEN <<s[i]>> ELSE <<>>) \o PickRows(s, I, i + 1)

\* df.head(n)
HeadRows(s, n) == SubSeq(s, 1, IF n < Len(s) THEN n ELSE Len(s))

Range(s) == {s[i] : i \in 1..Len(s)}

(***************************************************************************)
(* Sorting.  sort_values(ascending=False) places NaN keys last; equal keys *)
(* keep their input order (numpy sorts arrays of at most 16 elements by    *)
(* insertion, and list.sort is stable).                                    *)
(***************************************************************************)
\* does position j come before position i in the descending order of keys k
Precedes(k, j, i) ==
    /\ j # i
    /\ IF IsNaN(k[j]) THEN IsNaN(k[i]) /\ j < i
       ELSE \/ IsNaN(k[i])
            \/ k[j] > k[i]
            \/ (k[j] = k[i] /\ j < i)

\* the permutation of 1..Len(k) that sorts the keys k descending
SortPermDesc(k) ==
    LET rank == [i \in 1..Len(k) |-> 1 + Cardinality({j \in 1..Len(k) : Precedes(k, j, i)})]
    IN  [r \in 1..Len(k) |-> CHOOSE i \in 1..Len(k) : rank[i] = r]

\* the sequence s ordered by the keys k (one key per element of s)
SortDescBy(s, k) ==
    LET perm == SortPermDesc(k)
    IN  [r \in 1..Len(s) |-> s[perm[r]]]

(***************************************************************************)
(* Text.  A position code or a heatmap description is a sequence of        *)
(* characters, so that the substring tests of the code are real tests.     *)
(***************************************************************************)
\* a missing text cell (pd.isna): a sequence that is no string of characters
MissingText == <<"<NA>">>

Letters ==
    << <<"a","A">>, <<"b","B">>, <<"c","C">>, <<"d","D">>, <<"e","E">>, <<"f","F">>,
       <<"g","G">>, <<"h","H">>, <<"i","I">>, <<"j","J">>, <<"k","K">>, <<"l","L">>,
       <<"m","M">>, <<"n","N">>, <<"o","O">>, <<"p","P">>, <<"q","Q">>, <<"r","R">>,
       <<"s","S">>, <<"t","T">>, <<"u","U">>, <<"v","V">>, <<"w","W">>, <<"x","X">>,
       <<"y","Y">>, <<"z","Z">> >>

\* lower-case letter -> upper-case letter, and back
UpperMap == [c \in {Letters[p][1] : p \in 1..Len(Letters)} |->
                Letters[CHOOSE p \in 1..Len(Letters) : Letters[p][1] = c][2]]
LowerMap == [c \in {Letters[p][2] : p \in 1..Len(Letters)} |->
                Letters[CHOOSE p \in 1..Len(Letters) : Letters[p][2] = c][1]]

UpperChar(c) == IF c \in DOMAIN UpperMap THEN UpperMap[c] ELSE c

LowerChar(c) == IF c \in DOMAIN LowerMap THEN LowerMap[c] ELSE c

\* str.upper() / str.lower()
Upper(s) == [i \in 1..Len(s) |-> UpperChar(s[i])]
Lower(s) == [i \in 1..Len(s) |-> LowerChar(s[i])]

\* Python's  t in s  for strings
Contains(s, t) == \E i \in 0..(Len(s) - Len(t)) : SubSeq(s, i + 1, i + Len(t)) = t

\* any(x in s for x in tokens)
AnyIn(tokens, s) == \E t \in tokens : Contains(s, t)

(***************************************************************************)
(* Constants of optimized_prediction_model.py.                             *)
(***************************************************************************)
\* SERIE_A_AVG_CARDS_PER_GAME = 4.2
SERIE_A_AVG_CARDS_PER_GAME == 42000

\* WEIGHTS, in hundredths
WEIGHTS_INIT ==
    [historical_tendency |-> 35, foul_aggression |-> 25, critical_matchup |-> 20,
     referee_factor |-> 12, positional_risk |-> 8]

(***************************************************************************)
(* get_player_zone / get_player_role.                                      *)
(***************************************************************************)
get_player_zone(position, heatmap) ==
    LET pos == Upper(IF position = MissingText THEN <<>> ELSE position)
        heat == Lower(IF heatmap = MissingText THEN <<>> ELSE heatmap)
    IN  IF AnyIn({<<"L","W">>, <<"L","B">>, <<"L","W","B">>, <<"L","M">>}, pos) THEN "L"
        ELSE IF AnyIn({<<"R","W">>, <<"R","B">>, <<"R","W","B">>, <<"R","M">>}, pos) THEN "R"
        ELSE IF AnyIn({<<"l","e","f","t">>, <<"s","i","n","i","s","t","r","a">>}, heat) THEN "L"
        ELSE IF AnyIn({<<"r","i","g","h","t">>, <<"d","e","s","t","r","a">>}, heat) THEN "R"
        ELSE "C"

get_player_role(position) ==
    IF position = MissingText THEN "MID"
    ELSE LET pos == Upper(position)
         IN  IF AnyIn({<<"S","T">>, <<"C","F">>, <<"F","W">>, <<"W">>}, pos) THEN "ATT"
             ELSE IF AnyIn({<<"C","B">>, <<"L","B">>, <<"R","B">>, <<"W","B">>, <<"D","F">>}, pos) THEN "DEF"
             ELSE IF AnyIn({<<"G","K">>, <<"P">>}, pos) THEN "GK"
             ELSE "MID"

(***************************************************************************)
(* normalize_data: a missing or unparseable numeric value (NaN after       *)
(* pd.to_numeric(errors='coerce')) becomes the column's default; the zone  *)
(* and the role are derived.  The result is a new table (df.copy()).       *)
(***************************************************************************)
\* variant: the cell is kept as it is
FillNa_kept(x, default) == x

\* Series.fillna(default)
FillNa(x, default) == IF IsNaN(x) THEN default ELSE x

normalize_row(row) ==
    [Player |-> row.Player,
     Squadra |-> row.Squadra,
     Posizione_Primaria |-> row.Posizione_Primaria,
     Heatmap |-> row.Heatmap,
     Falli_Fatti_90s |-> FillNa(row.Falli_Fatti_90s, 15000),
     Falli_Subiti_90s |-> FillNa(row.Falli_Subiti_90s, 10000),
     Cartellini_Gialli |-> FillNa(row.Cartellini_Gialli, 2),
     M90s_per_Cartellino |-> FillNa(row.M90s_per_Cartellino, 10),
     Falli_per_Cartellino |-> FillNa(row.Falli_per_Cartellino, 5),
     Ritardo_Cartellino |-> FillNa(row.Ritardo_Cartellino, 45),
     G90s_Giocati |-> FillNa(row.G90s_Giocati, 20),
     Zona_Campo |-> get_player_zone(row.Posizione_Primaria, row.Heatmap),
     Ruolo |-> get_player_role(row.Posizione_Primaria)]

normalize_data(df) == [i \in 1..Len(df) |-> normalize_row(df[i])]

(***************************************************************************)
(* _calculate_historical_risk (four sub-scores and their blend).           *)
(***************************************************************************)
Card_Frequency_Score(row) ==
    IF row.M90s_per_Cartellino > 0
    THEN Clip(Div(5 * Unit, row.M90s_per_Cartellino), 0, Unit)
    ELSE 0

Impulsivity_Score(row) ==
    IF row.Falli_per_Cartellino > 0
    THEN Clip(Div(4 * Unit, row.Falli_per_Cartellino), 0, Unit)
    ELSE 0

Speed_Score(row) == Clip(Unit - Div(row.Ritardo_Cartellino * Unit, 90), 0, Unit)

\* valid_cards: the card counts of the rows with 90s played > 0
valid_cards(df) ==
    LET played == SelectRows(df, LAMBDA r : r.G90s_Giocati > 0)
    IN  [i \in 1..Len(played) |-> played[i].Cartellini_Gialli]

\* clip(cards / (avg_cards * 2), 0, 1) with avg_cards = sum / n, or 2.0 for
\* an empty valid_cards:  cards / (2 * sum / n) = cards * n / (2 * sum)
Volume_Score(row, df) ==
    LET vc == valid_cards(df)
    IN  IF vc = <<>>
        THEN ClipRatio01(row.Cartellini_Gialli, 4)
        ELSE ClipRatio01(row.Cartellini_Gialli * Len(vc), 2 * SumSeq(vc))

Historical_Risk(cf, imp, sp, vol) ==
    AddF(AddF(Pct(cf, 35), Pct(imp, 30)), AddF(Pct(sp, 20), Pct(vol, 15)))

historical_row(row, df) ==
    LET cf == Card_Frequency_Score(row)
        imp == Impulsivity_Score(row)
        sp == Speed_Score(row)
        vol == Volume_Score(row, df)
    IN  [Card_Frequency_Score |-> cf, Impulsivity_Score |-> imp,
         Speed_Score |-> sp, Volume_Score |-> vol,
         Historical_Risk |-> Historical_Risk(cf, imp, sp, vol)] @@ row

calculate_historical_risk(df) == [i \in 1..Len(df) |-> historical_row(df[i], df)]

(***************************************************************************)
(* _calculate_foul_aggression, _calculate_positional_risk.                 *)
(***************************************************************************)
\* clip(fouls / 2.5, 0, 1)
Foul_Aggression(row) == Clip(Div(row.Falli_Fatti_90s * 10, 25), 0, Unit)

calculate_foul_aggression(df) ==
    [i \in 1..Len(df) |-> [Foul_Aggression |-> Foul_Aggression(df[i])] @@ df[i]]

Positional_Risk(ruolo) ==
    CASE ruolo = "DEF" -> 8500
      [] ruolo = "MID" -> 7000
      [] ruolo = "ATT" -> 5000
      [] ruolo = "GK" -> 1000
      [] OTHER -> 5000

calculate_positional_risk(df) ==
    [i \in 1..Len(df) |-> [Positional_Risk |-> Positional_Risk(df[i].Ruolo)] @@ df[i]]

(***************************************************************************)
(* Critical matchups: _calculate_zone_compatibility,                       *)
(* _calculate_role_compatibility, _match_players,                          *)
(* _identify_critical_matchups.                                            *)
(***************************************************************************)
calculate_zone_compatibility(zone1, zone2) ==
    IF (zone1 = "L" /\ zone2 = "R") \/ (zone1 = "R" /\ zone2 = "L") THEN 10000
    ELSE IF zone1 = "C" \/ zone2 = "C" THEN 7000
    ELSE IF zone1 = zone2 THEN 3000
    ELSE 5000

calculate_role_compatibility(role1, role2) ==
    IF (role1 = "ATT" /\ role2 = "DEF") \/ (role1 = "DEF" /\ role2 = "ATT") THEN 10000
    ELSE IF role1 = "MID" \/ role2 = "MID" THEN 8000
    ELSE IF role1 = "DEF" /\ role2 = "DEF" THEN 2000
    ELSE 6000

\* zone_compat * 0.70 + role_compat * 0.30
total_compat(zone_compat, role_compat) == Div(zone_compat * 70 + role_compat * 30, 100)

\* the minimum combined compatibility of a duel, 0.5
MIN_TOTAL_COMPAT == 5000

\* variant: the same-team test of the pairing loop is missing
SameTeam_unchecked(victim, aggressor) == FALSE

\* if victim_team == aggressor_team: continue
SameTeam(victim, aggressor) == victim.Squadra = aggressor.Squadra

\* tuple(sorted([victim name, aggressor name])): the unordered pair of names
pair_key(victim, aggressor) == {victim.Player, aggressor.Player}

\* (suffered * 0.35 + committed * 0.35 + Historical_Risk * 0.30) * total_compat
matchup_risk_score(victim, aggressor, compat) ==
    LET base == AddF(Pct(victim.Falli_Subiti_90s, 35) + Pct(aggressor.Falli_Fatti_90s, 35),
                     Pct(aggressor.Historical_Risk, 30))
    IN  IF IsNaN(base) THEN NaN ELSE Div(base * compat, Unit)

make_matchup(victim, aggressor) ==
    LET zc == calculate_zone_compatibility(victim.Zona_Campo, aggressor.Zona_Campo)
        rc == calculate_role_compatibility(victim.Ruolo, aggressor.Ruolo)
    IN  [victim_player |-> victim.Player, victim_team |-> victim.Squadra,
         victim_zone |-> victim.Zona_Campo, victim_role |-> victim.Ruolo,
         aggressor_player |-> aggressor.Player, aggressor_team |-> aggressor.Squadra,
         aggressor_zone |-> aggressor.Zona_Campo, aggressor_role |-> aggressor.Ruolo,
         zone_compatibility |-> zc, role_compatibility |-> rc,
         risk_score |-> matchup_risk_score(victim, aggressor, total_compat(zc, rc))]

\* is the pair discarded by one of the three "continue" tests of the loop body
pair_skipped(victim, aggressor, used_pairs) ==
    \/ SameTeam(victim, aggressor)
    \/ pair_key(victim, aggressor) \in used_pairs
    \/ total_compat(calculate_zone_compatibility(victim.Zona_Campo, aggressor.Zona_Campo),
                    calculate_role_compatibility(victim.Ruolo, aggressor.Ruolo)) < MIN_TOTAL_COMPAT

\* the two nested loops, victim outer (v) and aggressor inner (a), carrying
\* the list built so far and the set used_pairs
RECURSIVE match_loop(_, _, _, _, _, _)
match_loop(victims, aggressors, v, a, matchups, used_pairs) ==
    IF v > Len(victims) THEN matchups
    ELSE IF a > Len(aggressors) THEN match_loop(victims, aggressors, v + 1, 1, matchups, used_pairs)
    ELSE IF pair_skipped(victims[v], aggressors[a], used_pairs)
         THEN match_loop(victims, aggressors, v, a + 1, matchups, used_pairs)
         ELSE match_loop(victims, aggressors, v, a + 1,
                         Append(matchups, make_matchup(victims[v], aggressors[a])),
                         used_pairs \cup {pair_key(victims[v], aggressors[a])})

match_players(victims, aggressors) == match_loop(victims, aggressors, 1, 1, <<>>, {})

\* .nlargest(n, column): the n rows with the largest keys, largest first,
\* the first occurrences winning a tie
nlargest(df, n, keys) == HeadRows(SortDescBy(df, keys), n)

\* the candidate lists hold at most 8 rows each
CANDIDATES_PER_SIDE == 8

\* the list returned holds at most 10 matchups
MAX_MATCHUPS == 10

\* role in {ATT, MID} and fouls suffered per 90 >= 1.0, the 8 most fouled
select_victims(df) ==
    LET c == SelectRows(df, LAMBDA r : r.Ruolo \in {"ATT", "MID"} /\ r.Falli_Subiti_90s >= 10000)
    IN  nlargest(c, CANDIDATES_PER_SIDE, [i \in 1..Len(c) |-> c[i].Falli_Subiti_90s])

\* variant: the aggressors are taken from every role
select_aggressors_any_role(df) ==
    LET c == SelectRows(df, LAMBDA r : r.Falli_Fatti_90s >= 15000)
    IN  nlargest(c, CANDIDATES_PER_SIDE, [i \in 1..Len(c) |-> c[i].Falli_Fatti_90s])

\* role in {DEF, MID} and fouls committed per 90 >= 1.5, the 8 most fouling
select_aggressors(df) ==
    LET c == SelectRows(df, LAMBDA r : r.Ruolo \in {"DEF", "MID"} /\ r.Falli_Fatti_90s >= 15000)
    IN  nlargest(c, CANDIDATES_PER_SIDE, [i \in 1..Len(c) |-> c[i].Falli_Fatti_90s])

identify_critical_matchups(home_rows, away_rows) ==
    LET matchups == match_players(select_victims(home_rows), select_aggressors(away_rows))
                    \o match_players(select_victims(away_rows), select_aggressors(home_rows))
        sorted == SortDescBy(matchups, [i \in 1..Len(matchups) |-> matchups[i].risk_score])
    IN  HeadRows(sorted, MAX_MATCHUPS)

(***************************************************************************)
(* _calculate_referee_factor and referee_factor ** 0.12.                   *)
(***************************************************************************)
\* variant: the league average divided by the referee's average
calculate_referee_factor_inverted(referee_table) ==
    IF referee_table = <<>> THEN Unit
    ELSE Clip(Div(SERIE_A_AVG_CARDS_PER_GAME * Unit, referee_table[1].Gialli_a_partita), 7000, 14000)

\* a referee table of zero rows gives 1.0
calculate_referee_factor(referee_table) ==
    IF referee_table = <<>> THEN Unit
    ELSE Clip(Div(referee_table[1].Gialli_a_partita * Unit, SERIE_A_AVG_CARDS_PER_GAME), 7000, 14000)

\* x ** 0.12 at x = 0.7, 0.8, ..., 1.4 (rounded to 4 decimals)
POW12_KNOTS == <<9581, 9736, 9874, 10000, 10115, 10221, 10320, 10412>>

\* x ** 0.12 for 0.7 <= x <= 1.4, linear between the knots
pow12(x) ==
    LET k == (x - 7000) \div 1000 + 1
    IN  IF k >= Len(POW12_KNOTS) THEN POW12_KNOTS[Len(POW12_KNOTS)]
        ELSE POW12_KNOTS[k]
             + Div((POW12_KNOTS[k + 1] - POW12_KNOTS[k]) * (x - (7000 + (k - 1) * 1000)), 1000)

(***************************************************************************)
(* _calculate_team_aggression_factor.                                      *)
(***************************************************************************)
\* players with fewer 90s played than this do not count for team aggression
MIN_90S_AGGRESSION == 5

\* sum(fouls per 90) * 0.5 + sum(cards / 90s played) * 0.5
team_aggression_score(players) ==
    Div(SumSeq([i \in 1..Len(players) |-> players[i].Falli_Fatti_90s]) * 5, 10)
    + Div(SumSeq([i \in 1..Len(players) |->
                     Div(players[i].Cartellini_Gialli * Unit, players[i].G90s_Giocati)]) * 5, 10)

\* variant: the factor is the home team's share of the total aggression
calculate_team_aggression_share(home_table, away_table) ==
    LET home_players == SelectRows(home_table, LAMBDA r : r.G90s_Giocati >= MIN_90S_AGGRESSION)
        away_players == SelectRows(away_table, LAMBDA r : r.G90s_Giocati >= MIN_90S_AGGRESSION)
        total == team_aggression_score(home_players) + team_aggression_score(away_players)
    IN  IF home_players = <<>> \/ away_players = <<>> \/ total = 0 THEN <<0, 0>>
        ELSE <<Div(team_aggression_score(home_players) * Unit, total),
               Div(team_aggression_score(home_players) * Unit, total)>>

\* <<diff_factor, abs(diff_factor)>>
calculate_team_aggression_factor(home_table, away_table) ==
    LET home_players == SelectRows(home_table, LAMBDA r : r.G90s_Giocati >= MIN_90S_AGGRESSION)
        away_players == SelectRows(away_table, LAMBDA r : r.G90s_Giocati >= MIN_90S_AGGRESSION)
        home_score == team_aggression_score(home_players)
        away_score == team_aggression_score(away_players)
        total == home_score + away_score
    IN  IF home_players = <<>> \/ away_players = <<>> THEN <<0, 0>>
        ELSE IF total = 0 THEN <<0, 0>>
        ELSE LET diff_factor == Div((home_score - away_score) * Unit, total)
             IN  <<diff_factor, Abs(diff_factor)>>

(***************************************************************************)
(* predict_match_cards, steps 4-8: matchup bonus, final risk, odds, rank.  *)
(***************************************************************************)
\* the dict matchup_bonus after the loop over the matchups, read at one name
\* (a name the loop never stored reads 0 through .map(...).fillna(0))
RECURSIVE matchup_bonus(_, _, _, _)
matchup_bonus(matchups, i, name, acc) ==
    IF i > Len(matchups) THEN acc
    ELSE LET m == matchups[i]
             a1 == IF m.aggressor_player = name THEN PyMax(acc, Pct(m.risk_score, 50)) ELSE acc
             a2 == IF m.victim_player = name THEN PyMax(a1, Pct(m.risk_score, 30)) ELSE a1
         IN  matchup_bonus(matchups, i + 1, name, a2)

RECURSIVE MaxSeq(_)
MaxSeq(s) == IF Len(s) = 1 THEN s[1] ELSE LET m == MaxSeq(Tail(s)) IN IF s[1] > m THEN s[1] ELSE m

\* the column Matchup_Bonus: raw bonus by player name, then divided by the
\* largest bonus of the pool and scaled to 0.4 when that largest is > 0
assign_matchup_bonus(df, matchups) ==
    LET raw == [i \in 1..Len(df) |-> matchup_bonus(matchups, 1, df[i].Player, 0)]
        top == MaxSeq(raw)
    IN  [i \in 1..Len(df) |->
            [Matchup_Bonus |-> IF top > 0 THEN Div(raw[i] * 4000, top) ELSE raw[i]] @@ df[i]]

\* the floor and the ceiling of the final risk, 0.01 and 0.95
RISK_FLOOR == 100
RISK_CEILING == 9500

\* weighted sum * referee_factor ** 0.12, clipped to [0.01, 0.95]
Rischio_Finale(row, w, referee_factor) ==
    LET blend == AddF(AddF(Pct(row.Historical_Risk, w.historical_tendency),
                           Pct(row.Foul_Aggression, w.foul_aggression)),
                      AddF(Pct(row.Matchup_Bonus, w.critical_matchup),
                           Pct(row.Positional_Risk, w.positional_risk)))
    IN  IF IsNaN(blend) THEN NaN
        ELSE Clip(Div(blend * pow12(referee_factor), Unit), RISK_FLOOR, RISK_CEILING)

\* variant: the odds are the scaled reciprocal, outside the display band too
Quota_Stimata_unclipped(risk) ==
    IF ~IsNaN(risk) /\ risk > RISK_FLOOR THEN Div(4500 * Unit, risk) ELSE 200000

\* np.where(risk > 0.01, clip(0.45 / risk, 1.5, 20.0), 20.0); NaN > 0.01 is False
Quota_Stimata(risk) ==
    IF ~IsNaN(risk) /\ risk > RISK_FLOOR
    THEN Clip(Div(4500 * Unit, risk), 15000, 200000)
    ELSE 200000

final_risk(df, w, referee_factor) ==
    [i \in 1..Len(df) |->
        LET r == Rischio_Finale(df[i], w, referee_factor)
        IN  [Rischio_Finale |-> r, Quota_Stimata |-> Quota_Stimata(r)] @@ df[i]]

\* variant: the table is left in the order of the sheets
sort_by_risk_skipped(df) == df

\* sort_values('Rischio_Finale', ascending=False)
sort_by_risk(df) == SortDescBy(df, [i \in 1..Len(df) |-> df[i].Rischio_Finale])

(***************************************************************************)
(* predict_match_cards, step 9: the forced 2-2 / 3-1 balance.              *)
(***************************************************************************)
\* BASE_RISK_THRESHOLD = 0.40
BASE_RISK_THRESHOLD == 4000

\* RISK_DIFFERENCE_THRESHOLD = BASE_RISK_THRESHOLD - aggression_abs_diff * 0.15
risk_difference_threshold(aggression_abs_diff) ==
    BASE_RISK_THRESHOLD - Div(aggression_abs_diff * 15, 100)

\* variant: the 3-1 split is accepted on any positive gap, threshold ignored
risk_diff_ignores_threshold(risk_dominant_3rd, risk_minor_2nd, threshold) ==
    /\ ~IsNaN(risk_dominant_3rd)
    /\ ~IsNaN(risk_minor_2nd)
    /\ risk_dominant_3rd > risk_minor_2nd

\* risk_dominant_3rd > risk_minor_2nd + RISK_DIFFERENCE_THRESHOLD
risk_diff_is_significant(risk_dominant_3rd, risk_minor_2nd, threshold) ==
    /\ ~IsNaN(risk_dominant_3rd)
    /\ ~IsNaN(risk_minor_2nd)
    /\ risk_dominant_3rd > risk_minor_2nd + threshold

team_rows(df, team) == SelectRows(df, LAMBDA r : r.Squadra = team)

count_team(df, team) == Len(team_rows(df, team))

\* variant: the forced split keeps three home players and one away player
force_3_1(home_risks, away_risks) == HeadRows(home_risks, 3) \o HeadRows(away_risks, 1)

\* home_risks.head(2) followed by away_risks.head(2)
force_2_2(home_risks, away_risks) == HeadRows(home_risks, 2) \o HeadRows(away_risks, 2)

\* the last branch: up to two of each team, sorted by risk, cut to 4
take_available(home_risks, away_risks) == HeadRows(sort_by_risk(force_2_2(home_risks, away_risks)), 4)

\* top_4_bilanciato, from the ranked table and the threshold
balance_top_4(ranked, home_team_name, away_team_name, threshold) ==
    LET home_risks == team_rows(ranked, home_team_name)
        away_risks == team_rows(ranked, away_team_name)
        top_4_iniziale == HeadRows(ranked, 4)
        count_home == count_team(top_4_iniziale, home_team_name)
        count_away == count_team(top_4_iniziale, away_team_name)
    IN  IF (count_home = 4 \/ count_away = 4) /\ Len(home_risks) >= 2 /\ Len(away_risks) >= 2
        THEN force_2_2(home_risks, away_risks)
        ELSE IF (count_home = 3 /\ count_away = 1) \/ (count_home = 1 /\ count_away = 3)
        THEN LET dominant_risks == IF count_home = 3 THEN home_risks ELSE away_risks
                 minor_risks == IF count_home = 3 THEN away_risks ELSE home_risks
             IN  IF Len(minor_risks) < 2 THEN top_4_iniziale
                 ELSE IF risk_diff_is_significant(dominant_risks[3].Rischio_Finale,
                                                  minor_risks[2].Rischio_Finale, threshold)
                      THEN top_4_iniziale
                      ELSE force_2_2(home_risks, away_risks)
        ELSE IF count_home = 2 /\ count_away = 2 THEN top_4_iniziale
        ELSE take_available(home_risks, away_risks)

(***************************************************************************)
(* predict_match_cards, steps 10-12: referee profile, expected cards.      *)
(***************************************************************************)
severity_level(ref_cards) ==
    IF ref_cards > 50000 THEN "strict"
    ELSE IF ref_cards < 35000 THEN "permissive"
    ELSE "medium"

\* clip(ref_cards * clip(sum of risks / 5.5, 0.9, 1.1), 3.5, 5.5); the sum skips NaN
expected_cards(df, ref_cards) ==
    LET risks == SelectRows([i \in 1..Len(df) |-> df[i].Rischio_Finale], LAMBDA x : ~IsNaN(x))
        crf == Clip(Div(SumSeq(risks) * Unit, 55000), 9000, 11000)
    IN  Clip(Div(ref_cards * crf, Unit), 35000, 55000)

(***************************************************************************)
(* predict_match_cards as a whole: the dictionary it returns.              *)
(***************************************************************************)
\* variant: the rows of the previous call are kept and ranked again
concat_players_kept(home_n, away_n) ==
    home_n \o away_n \o (IF result = <<>> THEN <<>> ELSE result[1].all_predictions)

\* pd.concat([home_df, away_df], ignore_index=True)
concat_players(home_n, away_n) == home_n \o away_n

predict_match_cards(home_table, away_table, referee_table, w) ==
    LET home_n == normalize_data(home_table)
        away_n == normalize_data(away_table)
        scored == calculate_positional_risk(
                      calculate_foul_aggression(
                          calculate_historical_risk(concat_players(home_n, away_n))))
        home_team_name == home_n[1].Squadra
        away_team_name == away_n[1].Squadra
        critical_matchups == identify_critical_matchups(team_rows(scored, home_team_name),
                                                         team_rows(scored, away_team_name))
        aggression == calculate_team_aggression_factor(home_n, away_n)
        referee_factor == calculate_referee_factor(referee_table)
        ranked == sort_by_risk(final_risk(assign_matchup_bonus(scored, critical_matchups),
                                          w, referee_factor))
        threshold == risk_difference_threshold(aggression[2])
        top_4_bilanciato == balance_top_4(ranked, home_team_name, away_team_name, threshold)
        ref_cards == IF referee_table = <<>> THEN SERIE_A_AVG_CARDS_PER_GAME
                     ELSE referee_table[1].Gialli_a_partita
    IN  [all_predictions |-> ranked,
         top_4_predictions |-> sort_by_risk(top_4_bilanciato),
         match_info |-> [home_team |-> home_team_name, away_team |-> away_team_name,
                         expected_total_cards |-> expected_cards(ranked, ref_cards),
                         algorithm_confidence |->
                             IF Len(critical_matchups) >= 3 THEN "High" ELSE "Medium"],
         referee_profile |-> [name |-> IF referee_table = <<>> THEN "N/A" ELSE referee_table[1].Nome,
                              cards_per_game |-> ref_cards,
                              strictness_factor |-> referee_factor,
                              severity_level |-> severity_level(ref_cards)],
         critical_matchups |-> critical_matchups,
         algorithm_summary |-> [critical_matchups_found |-> Len(critical_matchups),
                                weights_used |-> w,
                                aggression_diff_factor |-> aggression[1],
                                dynamic_risk_threshold_applied |-> threshold]]

(***************************************************************************)
(* The spreadsheet of the model: two team sheets of five players each and  *)
(* a referee sheet.  Fouls per 90 are in fixed point; the other numeric    *)
(* columns are whole numbers.  "Rossi" plays in both teams (names are      *)
(* unique within a team only); Gallo and Riva have zero fouls and zero     *)
(* cards and fewer 90s played than any threshold of the code; Costa has an *)
(* empty delay cell.                                                       *)
(***************************************************************************)
Player(name, team, pos, heat, ff, fs, cards, m90c, fpc, delay, g90) ==
    [Player |-> name, Squadra |-> team, Posizione_Primaria |-> pos, Heatmap |-> heat,
     Falli_Fatti_90s |-> ff, Falli_Subiti_90s |-> fs, Cartellini_Gialli |-> cards,
     M90s_per_Cartellino |-> m90c, Falli_per_Cartellino |-> fpc,
     Ritardo_Cartellino |-> delay, G90s_Giocati |-> g90]

CentralActivity == <<"C","e","n","t","r","a","l">>
LeftSide == <<"L","e","f","t">>

Sheet(team) ==
    IF team = "Alfa"
    THEN << Player("Rossi",   "Alfa", <<"C","B">>, CentralActivity, 28000,  5000, 8, 3, 3, 20, 24),
            Player("Bianchi", "Alfa", <<"L","B">>, CentralActivity, 25000,  8000, 6, 4, 4, 30, 20),
            Player("Verdi",   "Alfa", <<"C","M">>, CentralActivity, 20000, 15000, 5, 5, 5, 45, 18),
            Player("Neri",    "Alfa", <<"R","W">>, CentralActivity,  6000, 24000, 0, 0, 0, 90, 15),
            Player("Gallo",   "Alfa", <<"G","K">>, MissingText,         0,     0, 0, 0, 0, 90,  3) >>
    ELSE << Player("Rossi",   "Beta", <<"S","T">>, CentralActivity, 10000, 20000, 2, 10, 8, 60, 20),
            Player("Costa",   "Beta", <<"R","B">>, CentralActivity, 16000,  4000, 3, 7, 6, NaN, 22),
            Player("Marino",  "Beta", <<"A","M">>, LeftSide,        16000,  8000, 0, 0, 0, 90, 12),
            Player("Greco",   "Beta", <<"D","M">>, CentralActivity, 30000, 12000, 9, 2, 3, 15, 25),
            Player("Riva",    "Beta", <<"G","K">>, MissingText,         0,     0, 0, 0, 0, 90,  4) >>

Teams == {"Alfa", "Beta"}

\* the <<home team, away team>> pairings a caller passes; the model class
\* does not reject a team paired with itself
Pairings == {<<"Alfa", "Beta">>, <<"Beta", "Alfa">>, <<"Alfa", "Alfa">>}

\* the referee sheet: name and average yellow cards per match
Referees == { [Nome |-> "Mariani", Gialli_a_partita |-> 52000] }

\* the referee tables a caller can pass: no row, or the row of one referee
RefereeTables == {<<>>} \cup {<<r>> : r \in Referees}

\* the tables of one team a caller can pass: the rows of a non-empty choice
\* of at most MaxTeamSize players of the team's sheet
TeamTables(team) ==
    {PickRows(Sheet(team), I, 1) :
        I \in {J \in SUBSET (1..Len(Sheet(team))) : J # {} /\ Cardinality(J) <= MaxTeamSize}}

Init ==
    /\ \E pairing \in Pairings :
          /\ home_df \in TeamTables(pairing[1])
          /\ away_df \in TeamTables(pairing[2])
    /\ referee_df \in RefereeTables
    /\ WEIGHTS = WEIGHTS_INIT
    /\ session = [page |-> "none"]
    /\ result = <<>>
    /\ phase = "idle"
    /\ op = "none"

\* variant: each call lowers the matchup weight kept in the shared dict
weights_after_call_decay(w) ==
    [w EXCEPT !.critical_matchup = IF w.critical_matchup >= 10 THEN w.critical_matchup - 10 ELSE 0]

\* predict_match_cards reads self.weights and never assigns it
weights_after_call(w) == w

\* one call of predict_match_cards on the caller's tables; the tables are
\* copied by normalize_data and stay as they are
Call ==
    /\ phase \in {"idle", "done"}
    /\ home_df # <<>> /\ away_df # <<>>
    /\ result' = <<predict_match_cards(home_df, away_df, referee_df, WEIGHTS)>>
    /\ WEIGHTS' = weights_after_call(WEIGHTS)
    /\ phase' = "done"
    /\ op' = IF phase = "done" THEN "repeat" ELSE "predict"
    /\ UNCHANGED <<home_df, away_df, referee_df, session>>

\* the player of a row: name and team
player_of(row) == [Player |-> row.Player, Squadra |-> row.Squadra]

without_player(df, p) == SelectRows(df, LAMBDA r : player_of(r) # p)

\* the interactive exclusion: a shortlisted player is taken out of the pool
\* and the shortlist is recomputed on what remains; a team left without
\* players is reported and no ranking is produced
Exclude(p) ==
    /\ phase = "done"
    /\ p \in {player_of(e) : e \in Range(result[1].top_4_predictions)}
    /\ home_df' = without_player(home_df, p)
    /\ away_df' = without_player(away_df, p)
    /\ IF home_df' = <<>> \/ away_df' = <<>>
       THEN /\ result' = <<>>
            /\ phase' = "error"
            /\ WEIGHTS' = WEIGHTS
       ELSE /\ result' = <<predict_match_cards(home_df', away_df', referee_df, WEIGHTS)>>
            /\ phase' = "done"
            /\ WEIGHTS' = weights_after_call(WEIGHTS)
    /\ op' = "exclude"
    /\ UNCHANGED <<referee_df, session>>

Next ==
    \/ Call
    \/ \E p \in [Player : {"Rossi", "Bianchi", "Verdi", "Neri", "Gallo",
                             "Costa", "Marino", "Greco", "Riva"}, Squadra : Teams] : Exclude(p)

Spec == Init /\ [][Next]_vars

(***************************************************************************)
(* The dashboard, src/app.py.  It imports SuperAdvancedCardPredictionModel *)
(* from enhanced_prediction_model_v2 and shows result['top_4_predictions'] *)
(* as that model returns it.                                               *)
(***************************************************************************)
\* enhanced_prediction_model_v2.get_field_zone (the heatmap is not consulted)
v2_get_field_zone(position, heatmap) ==
    LET pos == Upper(position)
    IN  IF AnyIn({<<"L">>, <<"L","B">>, <<"L","W">>, <<"L","M">>}, pos) THEN "Left Flank"
        ELSE IF AnyIn({<<"R">>, <<"R","B">>, <<"R","W">>, <<"R","M">>}, pos) THEN "Right Flank"
        ELSE IF AnyIn({<<"C","B">>, <<"S","T">>, <<"D","M">>, <<"C","D","M">>}, pos) THEN "Central"
        ELSE "Midfield"

\* enhanced_prediction_model_v2.get_player_role_category
v2_get_player_role_category(position) ==
    LET pos == Upper(IF position = MissingText THEN <<"n","a","n">> ELSE position)
    IN  IF AnyIn({<<"G">>, <<"P">>}, pos) THEN "Goalkeeper"
        ELSE IF AnyIn({<<"D">>, <<"C","B">>, <<"R","B">>, <<"L","B">>}, pos) THEN "Defender"
        ELSE IF AnyIn({<<"C">>, <<"M">>}, pos) THEN "Midfielder"
        ELSE IF AnyIn({<<"A">>, <<"S","T">>, <<"W">>}, pos) THEN "Attacker"
        ELSE "Other"

\* app.preprocess_data on one row: empty numeric cells become 0, an empty
\* position becomes MF, the zone and the role category are derived
preprocess_row(row) ==
    LET pos == IF row.Posizione_Primaria \in {MissingText, <<>>} THEN <<"M","F">>
               ELSE Upper(row.Posizione_Primaria)
    IN  [Player |-> row.Player,
         Squadra |-> row.Squadra,
         Posizione_Primaria |-> pos,
         Heatmap |-> IF row.Heatmap = MissingText THEN <<"n","a","n">> ELSE row.Heatmap,
         Falli_Fatti_90s |-> FillNa(row.Falli_Fatti_90s, 0),
         Falli_Subiti_90s |-> FillNa(row.Falli_Subiti_90s, 0),
         Cartellini_Gialli |-> FillNa(row.Cartellini_Gialli, 0),
         M90s_per_Cartellino |-> FillNa(row.M90s_per_Cartellino, 0),
         Falli_per_Cartellino |-> FillNa(row.Falli_per_Cartellino, 0),
         Ritardo_Cartellino |-> FillNa(row.Ritardo_Cartellino, 0),
         G90s_Giocati |-> FillNa(row.G90s_Giocati, 0),
         Zona_Campo |-> v2_get_field_zone(pos, row.Heatmap),
         Categoria_Ruolo |-> v2_get_player_role_category(pos)]

preprocess_data(df) == [i \in 1..Len(df) |-> preprocess_row(df[i])]

\* 1 / (x.replace(0, inf) + 0.01) for a whole number x >= 0
v2_inverse(x) == IF x = 0 THEN 0 ELSE Div(100 * Unit, 100 * x + 1)

\* (x / column maximum).fillna(fill): 0/0 is the only undefined quotient
v2_over_max(x, top, fill) == IF top = 0 THEN fill ELSE Div(x * Unit, top)

v2_rischio_posizionale(categoria) ==
    IF categoria \in {"Defender", "Midfielder"} THEN 5000 ELSE 2000

\* calculate_individual_risk: the column Tendenza_Individuale
v2_calculate_individual_risk(df) ==
    LET tend == [i \in 1..Len(df) |-> v2_inverse(df[i].M90s_per_Cartellino)]
        imp == [i \in 1..Len(df) |-> v2_inverse(df[i].Falli_per_Cartellino)]
        bil == [i \in 1..Len(df) |->
                   IF df[i].Falli_Fatti_90s > df[i].Falli_Subiti_90s
                   THEN df[i].Falli_Fatti_90s - df[i].Falli_Subiti_90s ELSE 0]
        tend_max == MaxSeq(tend)
        imp_max == MaxSeq(imp)
        bil_max == MaxSeq(bil)
    IN  [i \in 1..Len(df) |->
            LET pos_risk == v2_rischio_posizionale(df[i].Categoria_Ruolo)
            IN  [Rischio_Posizionale |-> pos_risk,
                 Tendenza_Individuale |->
                     Pct(v2_over_max(tend[i], tend_max, 0), 40)
                     + Pct(v2_over_max(imp[i], imp_max, 0), 30)
                     + Pct(v2_over_max(bil[i], bil_max, 0), 20)
                     + Pct(pos_risk, 10)] @@ df[i]]

\* calculate_matchup_risk: the column Rischio_Duello
v2_calculate_matchup_risk(df) ==
    LET ff_max == MaxSeq([i \in 1..Len(df) |-> df[i].Falli_Fatti_90s])
    IN  [i \in 1..Len(df) |->
            [Rischio_Duello |-> Pct(df[i].Tendenza_Individuale, 60)
                                + Pct(v2_over_max(df[i].Falli_Fatti_90s, ff_max, 0), 40)] @@ df[i]]

\* SERIE_A_AVG_CARDS of the v2 model, 4.5
V2_SERIE_A_AVG_CARDS == 45000

\* the band of the v2 risk after division by the pool maximum, [0.01, 0.6]
V2_RISK_FLOOR == 100
V2_RISK_CEILING == 6000

\* variant: the raw score is clipped without the division by the pool maximum
v2_calculate_final_risk_unscaled(df, referee_table) ==
    LET ref_severity_factor == Div(referee_table[1].Gialli_a_partita * Unit, V2_SERIE_A_AVG_CARDS)
        delay_max == MaxSeq([i \in 1..Len(df) |-> df[i].Ritardo_Cartellino])
    IN  [i \in 1..Len(df) |->
            LET r == Clip(Pct(df[i].Tendenza_Individuale, 25)
                          + Pct(df[i].Rischio_Duello, 20)
                          + Pct(Div(df[i].Tendenza_Individuale * ref_severity_factor, Unit), 18)
                          + Pct(df[i].Rischio_Posizionale, 12)
                          + Pct(Unit - v2_over_max(df[i].Ritardo_Cartellino, delay_max, 5000), 10),
                          V2_RISK_FLOOR, V2_RISK_CEILING)
            IN  [Rischio_Finale |-> r,
                 Quota_Stimata |-> Clip(Div(5000 * Unit, r), 15000, 100000)] @@ df[i]]

\* calculate_final_risk: Rischio_Finale and Quota_Stimata
v2_calculate_final_risk(df, referee_table) ==
    LET ref_severity_factor == Div(referee_table[1].Gialli_a_partita * Unit, V2_SERIE_A_AVG_CARDS)
        delay_max == MaxSeq([i \in 1..Len(df) |-> df[i].Ritardo_Cartellino])
        raw == [i \in 1..Len(df) |->
                   Pct(df[i].Tendenza_Individuale, 25)
                   + Pct(df[i].Rischio_Duello, 20)
                   + Pct(Div(df[i].Tendenza_Individuale * ref_severity_factor, Unit), 18)
                   + Pct(df[i].Rischio_Posizionale, 12)
                   + Pct(Unit - v2_over_max(df[i].Ritardo_Cartellino, delay_max, 5000), 10)]
        raw_max == MaxSeq(raw)
    IN  [i \in 1..Len(df) |->
            LET r == Clip(Div(raw[i] * Unit, raw_max), V2_RISK_FLOOR, V2_RISK_CEILING)
            IN  [Rischio_Finale |-> r,
                 Quota_Stimata |-> Clip(Div(5000 * Unit, r), 15000, 100000)] @@ df[i]]

\* the referee's severity as the v2 model reports it
v2_severity_level(ref_cards) ==
    IF ref_cards > 50000 THEN "strict"
    ELSE IF ref_cards < 35000 THEN "permissive"
    ELSE "medium"

\* SuperAdvancedCardPredictionModel.predict_match_cards of the v2 module:
\* the full ranking, and its first four rows as top_4_predictions
v2_predict_match_cards(home_table, away_table, referee_table) ==
    LET ranked == sort_by_risk(
                      v2_calculate_final_risk(
                          v2_calculate_matchup_risk(
                              v2_calculate_individual_risk(home_table \o away_table)),
                          referee_table))
        ref_cards == referee_table[1].Gialli_a_partita
    IN  [all_predictions |-> ranked,
         top_4_predictions |-> HeadRows(ranked, 4),
         match_info |-> [home_team |-> home_table[1].Squadra,
                         away_team |-> away_table[1].Squadra],
         referee_profile |-> [name |-> referee_table[1].Nome,
                              cards_per_game |-> ref_cards,
                              severity_level |-> v2_severity_level(ref_cards)]]

\* main_prediction_interface: equal teams are refused, an incomplete
\* selection (no referee row) only shows a hint, otherwise the imported
\* model predicts and display_top_4_predictions shows its top_4_predictions
AppPredict ==
    /\ phase = "idle"
    /\ home_df # <<>> /\ away_df # <<>>
    /\ IF home_df[1].Squadra = away_df[1].Squadra
       THEN result' = <<>> /\ phase' = "error"
       ELSE IF referee_df = <<>>
       THEN result' = <<>> /\ phase' = "info"
       ELSE /\ result' = <<v2_predict_match_cards(preprocess_data(home_df),
                                                   preprocess_data(away_df), referee_df)>>
            /\ phase' = "done"
    /\ op' = "predict"
    /\ UNCHANGED <<home_df, away_df, referee_df, WEIGHTS, session>>

SpecApp == Init /\ [][AppPredict]_vars

(***************************************************************************)
(* Calls of predict_match_cards under a changing referee: the pool stays,  *)
(* the referee row is replaced, the prediction is computed again.          *)
(***************************************************************************)
\* the averages of yellow cards per match on the referee sheet, 2.9 to 6.5
RefereeAverages == {29000, 35000, 38000, 42000, 49000, 52000, 65000}

RefereeSheet == {[Nome |-> "Arbitro", Gialli_a_partita |-> c] : c \in RefereeAverages}

\* the tables of exactly two players of a team
PairTables(team) == {t \in TeamTables(team) : Len(t) = 2}

InitReferee ==
    /\ home_df \in PairTables("Alfa")
    /\ away_df \in {t \in PairTables("Beta") : t[1].Player = "Rossi"}
    /\ referee_df \in {<<>>} \cup {<<r>> : r \in RefereeSheet}
    /\ WEIGHTS = WEIGHTS_INIT
    /\ session = [page |-> "none"]
    /\ result = <<>>
    /\ phase = "idle"
    /\ op = "none"

\* the same pool predicted again under another referee table
Reappoint(referee_table) ==
    /\ phase = "done"
    /\ referee_table # referee_df
    /\ referee_df' = referee_table
    /\ result' = <<predict_match_cards(home_df, away_df, referee_table, WEIGHTS)>>
    /\ WEIGHTS' = weights_after_call(WEIGHTS)
    /\ phase' = "done"
    /\ op' = "referee"
    /\ UNCHANGED <<home_df, away_df, session>>

NextReferee == Call \/ \E r \in RefereeSheet : Reappoint(<<r>>)

SpecReferee == InitReferee /\ [][NextReferee]_vars

\* the severity label of enhanced_prediction_model_v3.predict_match_cards
v3_severity_level(ref_cards) ==
    IF ref_cards > 55000 THEN "strict"
    ELSE IF ref_cards < 35000 THEN "permissive"
    ELSE "medium"

(***************************************************************************)
(* _identify_critical_matchups on squads large enough for nlargest(8) and  *)
(* the cut to 10 to drop rows.  The method receives tables that already    *)
(* carry Zona_Campo, Ruolo and Historical_Risk; the squads below give each *)
(* shirt number k its columns from a seed.                                 *)
(***************************************************************************)
\* players of the larger squad
MaxSquad == 10

\* seeds of the squad sheets
Seeds == 0..5

SquadRoles == <<"MID", "MID", "DEF", "MID", "MID", "ATT", "MID", "MID", "MID", "GK", "MID">>

SquadZones == <<"L", "C", "R">>

\* the row of shirt number k of a team; with shared names the two teams use
\* the same player names, otherwise the away names are all different
SquadPlayer(team, k, seed, shared) ==
    [Player |-> IF shared \/ team = "Alfa" THEN k ELSE 100 + k,
     Squadra |-> team,
     Zona_Campo |-> SquadZones[((k + seed) % 3) + 1],
     Ruolo |-> SquadRoles[((k + seed) % Len(SquadRoles)) + 1],
     Falli_Fatti_90s |-> (IF seed % 3 = 0 THEN 13000 ELSE 15000) + ((k * 3 + seed) % 7) * 2000,
     Falli_Subiti_90s |-> (IF seed % 3 = 0 THEN 7000 ELSE 10000) + ((k * 5 + seed) % 6) * 3000,
     Historical_Risk |-> ((k * 7 + seed) % 5) * 2000]

Squad(team, n, seed, shared) == [k \in 1..n |-> SquadPlayer(team, k, seed, shared)]

InitMatchups ==
    /\ \E hs \in Seeds, as \in Seeds, shared \in BOOLEAN, n \in {3, MaxSquad} :
          /\ home_df = Squad("Alfa", MaxSquad, hs, shared)
          /\ away_df = Squad("Beta", n, as, shared)
    /\ referee_df = <<>>
    /\ WEIGHTS = WEIGHTS_INIT
    /\ session = [page |-> "none"]
    /\ result = <<>>
    /\ phase = "idle"
    /\ op = "none"

\* one call of _identify_critical_matchups: the list it returns, and the
\* two lists its calls of _match_players returned on the way
FindMatchups ==
    /\ phase = "idle"
    /\ result' = <<[critical_matchups |-> identify_critical_matchups(home_df, away_df),
                    home_victim_duels |-> match_players(select_victims(home_df),
                                                        select_aggressors(away_df)),
                    away_victim_duels |-> match_players(select_victims(away_df),
                                                        select_aggressors(home_df))]>>
    /\ phase' = "done"
    /\ op' = "matchups"
    /\ UNCHANGED <<home_df, away_df, referee_df, WEIGHTS, session>>

SpecMatchups == InitMatchups /\ [][FindMatchups]_vars

(***************************************************************************)
(* find_critical_matchups of the v2 module, called as predict_match_cards  *)
(* calls it: on the home rows and the away rows of the ranked pool, which  *)
(* carry Rischio_Finale, Zona_Campo and Categoria_Ruolo.                   *)
(***************************************************************************)
\* MATCHING_MAP in the order of its keys: aggressor zone and side, victim
\* zone and side, base compatibility in hundredths
MATCHING_MAP ==
    << [agg_zone |-> "Left Flank",  agg_team |-> "home", vic_zone |-> "Right Flank", vic_team |-> "away", base_compat |-> 95],
       [agg_zone |-> "Right Flank", agg_team |-> "home", vic_zone |-> "Left Flank",  vic_team |-> "away", base_compat |-> 95],
       [agg_zone |-> "Left Flank",  agg_team |-> "away", vic_zone |-> "Right Flank", vic_team |-> "home", base_compat |-> 95],
       [agg_zone |-> "Right Flank", agg_team |-> "away", vic_zone |-> "Left Flank",  vic_team |-> "home", base_compat |-> 95],
       [agg_zone |-> "Central",     agg_team |-> "home", vic_zone |-> "Central",     vic_team |-> "away", base_compat |-> 85],
       [agg_zone |-> "Central",     agg_team |-> "away", vic_zone |-> "Central",     vic_team |-> "home", base_compat |-> 85],
       [agg_zone |-> "Midfield",    agg_team |-> "home", vic_zone |-> "Midfield",    vic_team |-> "away", base_compat |-> 75],
       [agg_zone |-> "Midfield",    agg_team |-> "away", vic_zone |-> "Midfield",    vic_team |-> "home", base_compat |-> 75] >>

\* variant: the list is returned whole, unsorted
v2_find_critical_matchups_uncut(df_home, df_away) ==
    LET rows(df, zone) ==
            LET at == [i \in 1..Len(df) |-> i]
                keep(i) == df[i].Zona_Campo = zone
            IN  [j \in 1..Len(SelectSeq(at, keep)) |-> df[SelectSeq(at, keep)[j]]]
        found[n \in 0..Len(MATCHING_MAP)] ==
            IF n = 0 THEN <<>>
            ELSE LET e == MATCHING_MAP[n]
                     a == rows(IF e.agg_team = "home" THEN df_home ELSE df_away, e.agg_zone)
                     v == rows(IF e.vic_team = "away" THEN df_away ELSE df_home, e.vic_zone)
                 IN  IF a = <<>> \/ v = <<>> THEN found[n - 1]
                     ELSE Append(found[n - 1],
                                 [risk_score |-> Div((a[1].Rischio_Finale + Div(a[1].Falli_Fatti_90s, 10)) * e.base_compat, 100),
                                  aggressor_player |-> a[1].Player, aggressor_team |-> a[1].Squadra,
                                  aggressor_zone |-> a[1].Zona_Campo, aggressor_role |-> a[1].Categoria_Ruolo,
                                  victim_player |-> v[1].Player, victim_team |-> v[1].Squadra,
                                  victim_zone |-> v[1].Zona_Campo, victim_role |-> v[1].Categoria_Ruolo,
                                  compatibility |-> e.base_compat])
    IN  found[Len(MATCHING_MAP)]

\* find_critical_matchups: per entry of MATCHING_MAP the first aggressor and
\* the first victim, both unused so far, that pass the two exclusions give
\* one matchup; the list is sorted by risk_score and cut to six
v2_find_critical_matchups(df_home, df_away) ==
    LET aggressors(df) ==
            LET at == [i \in 1..Len(df) |-> i]
                risky(i) == df[i].Rischio_Finale > 1500
                kept == SelectSeq(at, risky)
                picked == [j \in 1..Len(kept) |-> df[kept[j]]]
            IN  SortDescBy(picked, [j \in 1..Len(picked) |->
                                       picked[j].Rischio_Finale * 100000 + picked[j].Falli_Fatti_90s])
        victims(df) ==
            LET at == [i \in 1..Len(df) |-> i]
                total == SumSeq([i \in 1..Len(df) |-> df[i].Falli_Subiti_90s])
                fouled(i) == df[i].Falli_Subiti_90s * 10 * Len(df) > total * 8
                kept == SelectSeq(at, fouled)
                picked == [j \in 1..Len(kept) |-> df[kept[j]]]
            IN  SortDescBy(picked, [j \in 1..Len(picked) |-> picked[j].Falli_Subiti_90s])
        candidates(df, zone) ==
            LET at == [i \in 1..Len(df) |-> i]
                inzone(i) == df[i].Zona_Campo = zone
                kept == SelectSeq(at, inzone)
            IN  HeadRows([j \in 1..Len(kept) |-> df[kept[j]]], 3)
        aggressors_home == aggressors(df_home)
        aggressors_away == aggressors(df_away)
        victims_home == victims(df_home)
        victims_away == victims(df_away)
        scan[n \in 0..Len(MATCHING_MAP)] ==
            IF n = 0 THEN [matchups |-> <<>>, used_players |-> {}]
            ELSE LET e == MATCHING_MAP[n]
                     before == scan[n - 1]
                     agg_candidates == candidates(IF e.agg_team = "home" THEN aggressors_home
                                                  ELSE aggressors_away, e.agg_zone)
                     vic_candidates == candidates(IF e.vic_team = "away" THEN victims_away
                                                  ELSE victims_home, e.vic_zone)
                     duel(i, j) ==
                         /\ agg_candidates[i].Player \notin before.used_players
                         /\ vic_candidates[j].Player \notin before.used_players
                         /\ ~(agg_candidates[i].Categoria_Ruolo = "Defender"
                              /\ vic_candidates[j].Categoria_Ruolo = "Defender")
                         /\ ~(e.agg_zone = "Midfield"
                              /\ (agg_candidates[i].Categoria_Ruolo = "Defender"
                                  \/ vic_candidates[j].Categoria_Ruolo = "Defender"))
                     duels == {p \in (1..Len(agg_candidates)) \X (1..Len(vic_candidates)) :
                                  duel(p[1], p[2])}
                 IN  IF duels = {} THEN before
                     ELSE LET first == CHOOSE p \in duels :
                                  \A q \in duels : p[1] < q[1] \/ (p[1] = q[1] /\ p[2] <= q[2])
                              agg == agg_candidates[first[1]]
                              vic == vic_candidates[first[2]]
                          IN  [matchups |-> Append(before.matchups,
                                   [risk_score |-> Div((agg.Rischio_Finale + Div(agg.Falli_Fatti_90s, 10))
                                                       * e.base_compat, 100),
                                    aggressor_player |-> agg.Player, aggressor_team |-> agg.Squadra,
                                    aggressor_zone |-> agg.Zona_Campo, aggressor_role |-> agg.Categoria_Ruolo,
                                    victim_player |-> vic.Player, victim_team |-> vic.Squadra,
                                    victim_zone |-> vic.Zona_Campo, victim_role |-> vic.Categoria_Ruolo,
                                    compatibility |-> e.base_compat]),
                               used_players |-> before.used_players \cup {agg.Player, vic.Player}]
        matchups == scan[Len(MATCHING_MAP)].matchups
    IN  HeadRows(SortDescBy(matchups, [i \in 1..Len(matchups) |-> matchups[i].risk_score]), 6)

\* the row of shirt number k as predict_match_cards hands it on: the risk
\* is in the band of calculate_final_risk, zone and role come from the seed
RankedPlayer(team, k, seed, shared) ==
    [Player |-> IF shared \/ team = "Alfa" THEN k ELSE 100 + k,
     Squadra |-> team,
     Zona_Campo |-> <<"Left Flank", "Central", "Right Flank", "Midfield">>[((k + seed) % 4) + 1],
     Categoria_Ruolo |-> <<"Defender", "Midfielder", "Attacker", "Defender",
                           "Goalkeeper", "Midfielder", "Other">>[((k * 3 + seed) % 7) + 1],
     Falli_Fatti_90s |-> ((k * 3 + seed) % 7) * 4000,
     Falli_Subiti_90s |-> ((k * 5 + seed) % 6) * 3000,
     Rischio_Finale |-> IF (k + seed) % 9 = 0 THEN 6000 ELSE 100 + ((k * 7 + seed) % 6) * 1100]

InitRanked ==
    /\ \E hs \in Seeds, as \in Seeds, shared \in BOOLEAN, n \in {3, MaxSquad} :
          /\ home_df = [k \in 1..MaxSquad |-> RankedPlayer("Alfa", k, hs, shared)]
          /\ away_df = [k \in 1..n |-> RankedPlayer("Beta", k, as, shared)]
    /\ referee_df = <<>>
    /\ WEIGHTS = WEIGHTS_INIT
    /\ session = [page |-> "none"]
    /\ result = <<>>
    /\ phase = "idle"
    /\ op = "none"

\* one call of find_critical_matchups
FindCriticalMatchups ==
    /\ phase = "idle"
    /\ result' = <<[critical_matchups |-> v2_find_critical_matchups(home_df, away_df)]>>
    /\ phase' = "done"
    /\ op' = "v2_matchups"
    /\ UNCHANGED <<home_df, away_df, referee_df, WEIGHTS, session>>

SpecRanked == InitRanked /\ [][FindCriticalMatchups]_vars

(***************************************************************************)
(* The compatibility functions of the matchup finders, called on their own *)
(* arguments: result holds the arguments, then also the values returned.   *)
(***************************************************************************)
\* enhanced_prediction_model_v3.calculate_positional_matchup_probability
v3_calculate_positional_matchup_probability(zone1, zone2, role1, role2) ==
    LET is_mirrored_flank ==
            \/ zone1 = "Left Flank" /\ zone2 = "Right Flank"
            \/ zone1 = "Right Flank" /\ zone2 = "Left Flank"
        is_attacker_vs_defender_mid ==
            \/ role1 = "Attacker" /\ role2 \in {"Defender", "Midfielder"}
            \/ role2 = "Attacker" /\ role1 \in {"Defender", "Midfielder"}
        zone_compatibility(z1, z2) ==
            CASE z1 = "Central Attacking" /\ z2 = "Central Defensive" -> 9200
              [] z1 = "Left Flank" /\ z2 = "Central Defensive" -> 8500
              [] z1 = "Right Flank" /\ z2 = "Central Defensive" -> 8500
              [] z1 = "Central Midfield" /\ z2 = "Central Midfield" -> 7500
              [] z1 = "Left Flank" /\ z2 = "Right Flank" -> 6000
              [] z1 = "Right Flank" /\ z2 = "Left Flank" -> 6000
              [] OTHER -> 0
        base_prob == IF zone_compatibility(zone1, zone2) # 0 THEN zone_compatibility(zone1, zone2)
                     ELSE IF zone_compatibility(zone2, zone1) # 0 THEN zone_compatibility(zone2, zone1)
                     ELSE 4000
    IN  IF is_mirrored_flank /\ is_attacker_vs_defender_mid THEN 9800
        ELSE IF is_attacker_vs_defender_mid
             THEN (IF base_prob + 1500 < 9000 THEN base_prob + 1500 ELSE 9000)
             ELSE base_prob

OptimizedZones == {"L", "R", "C"}

V3Zones == {"Left Flank", "Right Flank", "Central Attacking", "Central Defensive",
            "Central Midfield"}

RoleCategories == {"Goalkeeper", "Defender", "Midfielder", "Attacker"}

InitCompat ==
    /\ home_df = <<>> /\ away_df = <<>> /\ referee_df = <<>>
    /\ WEIGHTS = WEIGHTS_INIT
    /\ session = [page |-> "none"]
    /\ \E z1 \in OptimizedZones, z2 \in OptimizedZones, v1 \in V3Zones, v2 \in V3Zones,
          r1 \in RoleCategories, r2 \in RoleCategories :
          result = <<[zone1 |-> z1, zone2 |-> z2, v3_zone1 |-> v1, v3_zone2 |-> v2,
                      role1 |-> r1, role2 |-> r2]>>
    /\ phase = "idle"
    /\ op = "none"

\* both functions called on the arguments held
ApplyCompat ==
    /\ phase = "idle"
    /\ result' = <<[zone_compatibility |->
                        calculate_zone_compatibility(result[1].zone1, result[1].zone2),
                    matchup_probability |->
                        v3_calculate_positional_matchup_probability(
                            result[1].v3_zone1, result[1].v3_zone2,
                            result[1].role1, result[1].role2)] @@ result[1]>>
    /\ phase' = "done"
    /\ op' = "compat"
    /\ UNCHANGED <<home_df, away_df, referee_df, WEIGHTS, session>>

SpecCompat == InitCompat /\ [][ApplyCompat]_vars

(***************************************************************************)
(* The role functions of the three variants, called on one position code.  *)
(***************************************************************************)
\* enhanced_prediction_model_v3.get_player_role_category
v3_get_player_role_category(position) ==
    LET pos == Upper(IF position = MissingText THEN <<>> ELSE position)
    IN  IF AnyIn({<<"G","K">>, <<"P">>}, pos) THEN "Goalkeeper"
        ELSE IF AnyIn({<<"C","B">>, <<"L","B">>, <<"R","B">>, <<"L","W","B">>, <<"R","W","B">>,
                       <<"D","F">>, <<"D">>}, pos) THEN "Defender"
        ELSE IF AnyIn({<<"S","T">>, <<"C","F">>, <<"L","W">>, <<"R","W">>, <<"F","W">>, <<"A">>}, pos)
             THEN "Attacker"
        ELSE "Midfielder"

\* the position codes of the sheets, in capitals
PositionCodes ==
    {<<"G","K">>, <<"C","B">>, <<"L","B">>, <<"R","B">>, <<"L","W","B">>, <<"R","W","B">>,
     <<"W","B">>, <<"L","W">>, <<"R","W">>, <<"F","W">>, <<"C","F">>, <<"S","T">>,
     <<"C","M">>, <<"D","M">>, <<"A","M">>, <<"M","F">>, <<"C","D","M">>, <<"C","A","M">>,
     <<"L","M">>, <<"R","M">>, <<>>}

\* a position cell: a code in capitals or in small letters, or a missing cell
PositionCells == PositionCodes \cup {Lower(c) : c \in PositionCodes} \cup {MissingText}

InitRoles ==
    /\ home_df = <<>> /\ away_df = <<>> /\ referee_df = <<>>
    /\ WEIGHTS = WEIGHTS_INIT
    /\ session = [page |-> "none"]
    /\ \E cell \in PositionCells : result = <<[position |-> cell]>>
    /\ phase = "idle"
    /\ op = "none"

\* one of the three role functions called on the position held
ApplyRole(variant, role) ==
    /\ phase = "idle"
    /\ result' = <<[variant |-> variant, role |-> role] @@ result[1]>>
    /\ phase' = "done"
    /\ op' = "role"
    /\ UNCHANGED <<home_df, away_df, referee_df, WEIGHTS, session>>

NextRoles ==
    \/ ApplyRole("optimized", get_player_role(result[1].position))
    \/ ApplyRole("v2", v2_get_player_role_category(result[1].position))
    \/ ApplyRole("v3", v3_get_player_role_category(result[1].position))

SpecRoles == InitRoles /\ [][NextRoles]_vars

(***************************************************************************)
(* normalize_data on a sheet as a caller reads it from a file: a column    *)
(* can be absent or carry another name, and a cell of a numeric column is  *)
(* a number, a text or blank.  A row is a function from the names of its   *)
(* columns; the columns stand in the order of ColumnOrder.                 *)
(***************************************************************************)
Num(v) == [number |-> v]
Txt(s) == [text |-> s]
Blank == [blank |-> TRUE]

Digits == <<"0", "1", "2", "3", "4", "5", "6", "7", "8", "9">>

IsDigits(s) == s # <<>> /\ \A i \in 1..Len(s) : \E d \in 1..Len(Digits) : Digits[d] = s[i]

RECURSIVE ParseDigits(_)
ParseDigits(s) ==
    IF s = <<>> THEN 0
    ELSE ParseDigits(SubSeq(s, 1, Len(s) - 1)) * 10
             + (CHOOSE d \in 1..Len(Digits) : Digits[d] = s[Len(s)]) - 1

\* pd.to_numeric(errors='coerce') on one cell: a number stays, a text of
\* digits is read, every other text and a blank cell become NaN; scale is
\* the fixed-point unit of the column
to_numeric(cell, scale) ==
    IF "number" \in DOMAIN cell THEN cell.number
    ELSE IF "text" \in DOMAIN cell /\ IsDigits(cell.text) THEN ParseDigits(cell.text) * scale
    ELSE NaN

\* column_mapping, applied in its order: old -> new when old is a column
\* and new is not
rename_column(row, old, new) ==
    IF old \in DOMAIN row /\ new \notin DOMAIN row
    THEN [c \in (DOMAIN row \ {old}) \cup {new} |-> IF c = new THEN row[old] ELSE row[c]]
    ELSE row

rename_columns(row) ==
    rename_column(rename_column(rename_column(row, "Giocatore", "Player"), "Nome", "Player"),
                  "Pos", "Posizione_Primaria")

ColumnOrder ==
    <<"Player", "Giocatore", "Nome", "Squadra", "Posizione_Primaria", "Pos", "Heatmap",
      "Falli_Fatti_90s", "Falli_Subiti_90s", "Cartellini_Gialli", "M90s_per_Cartellino",
      "Falli_per_Cartellino", "Ritardo_Cartellino", "G90s_Giocati", "Historical_Risk">>

\* df.iloc[:, 0].astype(str) on one row; the sheets keep a text column first
first_column_as_str(row) ==
    LET at == CHOOSE i \in 1..Len(ColumnOrder) :
                  /\ ColumnOrder[i] \in DOMAIN row
                  /\ \A j \in 1..(i - 1) : ColumnOrder[j] \notin DOMAIN row
        cell == row[ColumnOrder[at]]
    IN  IF ColumnOrder[at] \in {"Posizione_Primaria", "Pos", "Heatmap"} /\ cell = MissingText
        THEN <<"n","a","n">>
        ELSE cell

\* the numeric essential columns: default and fixed-point unit
essential_numeric ==
    << [col |-> "Falli_Fatti_90s",      default |-> 15000, scale |-> Unit],
       [col |-> "Falli_Subiti_90s",     default |-> 10000, scale |-> Unit],
       [col |-> "Cartellini_Gialli",    default |-> 2,     scale |-> 1],
       [col |-> "M90s_per_Cartellino",  default |-> 10,    scale |-> 1],
       [col |-> "Falli_per_Cartellino", default |-> 5,     scale |-> 1],
       [col |-> "Ritardo_Cartellino",   default |-> 45,    scale |-> 1],
       [col |-> "G90s_Giocati",         default |-> 20,    scale |-> 1],
       [col |-> "Historical_Risk",      default |-> 0,     scale |-> Unit] >>

NumericColumns == {essential_numeric[i].col : i \in 1..Len(essential_numeric)}

essential_of(col) == essential_numeric[CHOOSE i \in 1..Len(essential_numeric) : essential_numeric[i].col = col]

\* the column of a row after the loop over essential_cols, before fillna:
\* the default when the column is absent, the coerced cell otherwise
ensure_column(row, col) ==
    IF col \in NumericColumns
    THEN IF col \in DOMAIN row THEN to_numeric(row[col], essential_of(col).scale)
         ELSE essential_of(col).default
    ELSE IF col \in DOMAIN row THEN row[col]
    ELSE CASE col = "Player" -> first_column_as_str(row)
           [] col = "Squadra" -> "Unknown"
           [] col = "Posizione_Primaria" -> <<"M","F">>
           [] col = "Heatmap" -> <<"C","e","n","t","r","a","l"," ","a","c","t","i","v","i","t","y">>

EssentialColumns == {"Player", "Squadra", "Posizione_Primaria", "Heatmap"} \cup NumericColumns

normalize_sheet_row(row) ==
    LET renamed == rename_columns(row)
        ensured == [col \in EssentialColumns |-> ensure_column(renamed, col)]
    IN  [Historical_Risk |-> FillNa(ensured.Historical_Risk, essential_of("Historical_Risk").default)]
            @@ normalize_row(ensured) @@ renamed

normalize_data_sheet(df) == [i \in 1..Len(df) |-> normalize_sheet_row(df[i])]

\* what a sheet can hold in a numeric cell besides the number
SpoiltCells ==
    {Blank, Txt(<<>>), Txt(<<"n","/","a">>), Txt(<<"2",",","5">>), Txt(<<"3">>), Txt(<<"1","2">>)}

\* the columns a sheet can lack besides the name and the position
AbsentColumns ==
    {{}, {"Historical_Risk"}, {"Historical_Risk", "Squadra"}, {"Historical_Risk", "Heatmap"},
     {"Historical_Risk", "Cartellini_Gialli"}, NumericColumns}

\* a row of the catalogue as a sheet row: the name and the position under
\* the given column names, the numeric cells as numbers or blank, the
\* columns of absent left out
SheetRow(row, name_col, pos_col, absent) ==
    LET full == [c \in ({"Squadra", "Heatmap"} \cup NumericColumns
                        \cup ({name_col, pos_col} \ {"none"})) |->
                    IF c = name_col THEN row.Player
                    ELSE IF c = pos_col THEN row.Posizione_Primaria
                    ELSE IF c = "Squadra" THEN row.Squadra
                    ELSE IF c = "Heatmap" THEN row.Heatmap
                    ELSE IF c = "Historical_Risk" THEN Num(5000)
                    ELSE IF IsNaN(row[c]) THEN Blank ELSE Num(row[c])]
    IN  [c \in (DOMAIN full \ absent) |-> full[c]]

\* the sheet with one cell of its first row replaced
Spoil(df, col, cell) ==
    IF col \in DOMAIN df[1] THEN [df EXCEPT ![1][col] = cell] ELSE df

InitNormalize ==
    /\ \E I \in {J \in SUBSET (1..3) : J # {}}, name_col \in {"Player", "Giocatore", "Nome", "none"},
          pos_col \in {"Posizione_Primaria", "Pos", "none"}, absent \in AbsentColumns,
          col \in NumericColumns, cell \in SpoiltCells \cup {Num(7)} :
          LET rows == PickRows(Sheet("Beta"), I, 1)
              sheet == [i \in 1..Len(rows) |-> SheetRow(rows[i], name_col, pos_col, absent)]
          IN  home_df = Spoil(sheet, col, cell)
    /\ away_df = <<>>
    /\ referee_df = <<>>
    /\ WEIGHTS = WEIGHTS_INIT
    /\ session = [page |-> "none"]
    /\ result = <<>>
    /\ phase = "idle"
    /\ op = "none"

\* one call of normalize_data on the caller's sheet: the work is done on a
\* copy (df.copy()) and the caller's sheet stays as it is
Normalize ==
    /\ phase = "idle"
    /\ result' = <<[table |-> normalize_data_sheet(home_df)]>>
    /\ phase' = "done"
    /\ op' = "normalize"
    /\ UNCHANGED <<home_df, away_df, referee_df, WEIGHTS, session>>

SpecNormalize == InitNormalize /\ [][Normalize]_vars

(***************************************************************************)
(* app.py as a Streamlit session: every interaction with a widget runs     *)
(* main() again from the top.  load_excel_data is cached, so what the file *)
(* gave at the first run is what every later run sees.                     *)
(***************************************************************************)
\* the first option of the three select boxes
Placeholder == "Seleziona..."

Pages == {"Predizione", "Panoramica", "Info"}

\* what the Excel file can be: unreadable, or a workbook with the sheets of
\* some of the teams (a sheet can be there without rows)
ExcelFiles ==
    {[readable |-> FALSE, sheets |-> {}, empty |-> {}]} \cup
    {[readable |-> TRUE, sheets |-> S, empty |-> E] : S \in SUBSET Teams, E \in SUBSET {"Beta"}}

\* load_excel_data: None (here <<>>) for an unreadable file or a workbook
\* without team sheets, otherwise <<the players table and the referee table>>
load_excel_data(file) ==
    LET team_dataframes == file.sheets
        rows(t) == IF t \in file.empty THEN <<>> ELSE Sheet(t)
    IN  IF ~file.readable \/ team_dataframes = {} THEN <<>>
        ELSE <<[players |-> preprocess_data((IF "Alfa" \in team_dataframes THEN rows("Alfa") ELSE <<>>)
                                            \o (IF "Beta" \in team_dataframes THEN rows("Beta") ELSE <<>>)),
                referees |-> <<CHOOSE r \in Referees : TRUE>>]>>

\* variant: a team paired with itself is not refused
same_team_accepted(home_team, away_team) == FALSE

\* home_team == away_team and home_team != 'Seleziona...'
same_team_refused(home_team, away_team) == home_team = away_team /\ home_team # Placeholder

\* main_prediction_interface: <<outcome, result, model invoked>>
main_prediction_interface(df_players, df_referees, home_team, away_team, referee) ==
    IF same_team_refused(home_team, away_team) THEN <<"error", <<>>, FALSE>>
    ELSE IF home_team # Placeholder /\ away_team # Placeholder /\ referee # Placeholder
    THEN LET home == team_rows(df_players, home_team)
             away == team_rows(df_players, away_team)
             ref_df == SelectRows(df_referees, LAMBDA r : r.Nome = referee)
         IN  IF home = <<>> \/ away = <<>> THEN <<"error", <<>>, FALSE>>
             ELSE <<"done", <<v2_predict_match_cards(home, away, ref_df)>>, TRUE>>
    ELSE <<"info", <<>>, FALSE>>

\* main: the page, the load, then the page's interface
main(s) ==
    LET data == load_excel_data(s.file)
    IN  IF data = <<>> THEN <<"error", <<>>, FALSE>>
        ELSE IF s.page = "Predizione"
        THEN main_prediction_interface(data[1].players, data[1].referees, s.home, s.away, s.ref)
        ELSE <<"page", <<>>, FALSE>>

\* the options of a select box of the session
Options(s, widget) ==
    LET data == load_excel_data(s.file)
    IN  IF widget = "page" THEN Pages
        ELSE IF data = <<>> \/ s.page # "Predizione" THEN {}
        ELSE IF widget = "ref" THEN {Placeholder} \cup {r.Nome : r \in Range(data[1].referees)}
        ELSE {Placeholder} \cup {r.Squadra : r \in Range(data[1].players)}

InitDashboard ==
    /\ home_df = <<>> /\ away_df = <<>> /\ referee_df = <<>>
    /\ WEIGHTS = WEIGHTS_INIT
    /\ \E file \in ExcelFiles :
          LET s == [file |-> file, page |-> "Predizione", home |-> Placeholder,
                    away |-> Placeholder, ref |-> Placeholder]
          IN  /\ session = s
              /\ phase = main(s)[1]
              /\ result = main(s)[2]
              /\ op = "request"

\* the user picks an option of a select box and the script runs again
Interact(widget, value) ==
    /\ value \in Options(session, widget)
    /\ session[widget] # value
    /\ session' = [session EXCEPT ![widget] = value]
    /\ phase' = main(session')[1]
    /\ result' = main(session')[2]
    /\ op' = IF main(session')[3] THEN "predict" ELSE "request"
    /\ UNCHANGED <<home_df, away_df, referee_df, WEIGHTS>>

NextDashboard ==
    \E widget \in {"page", "home", "away", "ref"} :
        \E value \in Pages \cup Teams \cup {Placeholder} \cup {r.Nome : r \in Referees} :
            Interact(widget, value)

SpecDashboard == InitDashboard /\ [][NextDashboard]_vars

(***************************************************************************)
(* Pools in which some players have played fewer 90s than the aggression   *)
(* filter asks (>= 5): they are ranked, and their fouls and cards are left *)
(* out of the team aggression score.  The caller can also swap the sides.  *)
(***************************************************************************)
\* the table with 4 90s played in each of its first n rows
few_90s(df, n) ==
    [i \in 1..Len(df) |-> IF i <= n THEN [df[i] EXCEPT !.G90s_Giocati = 4] ELSE df[i]]

InitAggression ==
    /\ \E pairing \in {<<"Alfa", "Beta">>, <<"Beta", "Alfa">>} :
          /\ home_df \in {few_90s(t, n) : t \in {u \in TeamTables(pairing[1]) : Len(u) >= 3},
                                          n \in {0, 2, MaxTeamSize}}
          /\ away_df \in {few_90s(t, n) : t \in {u \in TeamTables(pairing[2]) : Len(u) >= 2},
                                          n \in {0, MaxTeamSize}}
    /\ referee_df \in {<<r>> : r \in Referees}
    /\ WEIGHTS = WEIGHTS_INIT
    /\ session = [page |-> "none"]
    /\ result = <<>>
    /\ phase = "idle"
    /\ op = "none"

\* the same two tables passed the other way round, after a prediction
SwapSides ==
    /\ phase = "done"
    /\ op # "swap"
    /\ home_df' = away_df
    /\ away_df' = home_df
    /\ result' = <<predict_match_cards(home_df', away_df', referee_df, WEIGHTS)>>
    /\ WEIGHTS' = weights_after_call(WEIGHTS)
    /\ phase' = "done"
    /\ op' = "swap"
    /\ UNCHANGED <<referee_df, session>>

NextAggression == (phase = "idle" /\ Call) \/ SwapSides

SpecAggression == InitAggression /\ [][NextAggression]_vars

(***************************************************************************)
(* The simulated model of app.py, the class the dashboard uses when the    *)
(* real model cannot be imported.  Its risk adds np.random.rand() * 0.1 to *)
(* each row: noise is the sequence of those draws.  The squads carry the   *)
(* zone and role columns that preprocess_data adds.                        *)
(***************************************************************************)
simulated_predict_match_cards(home_table, away_table, ref_table, noise) ==
    LET all_players_df == home_table \o away_table
        risked == [i \in 1..Len(all_players_df) |->
                      LET risk == Clip(Pct(all_players_df[i].Falli_Fatti_90s, 15) + noise[i],
                                       100, 6000)
                      IN  [Rischio_Finale |-> risk,
                           Quota_Stimata |-> Clip(Div(5000 * Unit, risk), 15000, 100000),
                           Tendenza_Individuale |-> Pct(risk, 80),
                           Duelli_Critici |-> IF risk > 3000 THEN 1 ELSE 0] @@ all_players_df[i]]
        ranked == sort_by_risk(risked)
        top_4_predictions == HeadRows(ranked, 4)
        ref_cards == ref_table[1].Gialli_a_partita
        duel(score, aggressor, victim, compat) ==
            [risk_score |-> score,
             aggressor_player |-> aggressor.Player, aggressor_team |-> aggressor.Squadra,
             aggressor_zone |-> aggressor.Zona_Campo, aggressor_role |-> aggressor.Ruolo,
             victim_player |-> victim.Player, victim_team |-> victim.Squadra,
             victim_zone |-> victim.Zona_Campo, victim_role |-> victim.Ruolo,
             compatibility |-> compat]
    IN  [all_predictions |-> ranked,
         top_4_predictions |-> top_4_predictions,
         match_info |-> [home_team |-> home_table[1].Squadra, away_team |-> away_table[1].Squadra],
         referee_profile |-> [name |-> ref_table[1].Nome,
                              cards_per_game |-> ref_cards,
                              severity_level |-> IF ref_cards > 50000 THEN "strict"
                                                 ELSE IF ref_cards < 35000 THEN "permissive"
                                                 ELSE "medium"],
         critical_matchups |->
             IF Len(top_4_predictions) >= 2 /\ Len(ranked) >= 12
             THEN << duel(6500, top_4_predictions[1], ranked[11], 9000),
                     duel(5200, top_4_predictions[2], ranked[12], 8000) >>
             ELSE <<>>]

InitSimulated ==
    /\ \E hs \in Seeds, as \in Seeds, n \in {1, 3, MaxSquad} :
          /\ home_df = Squad("Alfa", MaxSquad, hs, FALSE)
          /\ away_df = Squad("Beta", n, as, FALSE)
    /\ referee_df \in {<<r>> : r \in Referees}
    /\ WEIGHTS = WEIGHTS_INIT
    /\ session = [page |-> "none"]
    /\ result = <<>>
    /\ phase = "idle"
    /\ op = "none"

\* one call of the simulated model; the draws of the random generator are
\* 0, 0.0499 or 0.0998, in one of three patterns over the rows
SimulatedPredict ==
    /\ phase = "idle"
    /\ \E step \in 0..2 :
          result' = <<simulated_predict_match_cards(home_df, away_df, referee_df,
                          [i \in 1..(Len(home_df) + Len(away_df)) |-> ((i * step) % 3) * 499])>>
    /\ phase' = "done"
    /\ op' = "simulated"
    /\ UNCHANGED <<home_df, away_df, referee_df, WEIGHTS, session>>

SpecSimulated == InitSimulated /\ [][SimulatedPredict]_vars

(***************************************************************************)
(* Pools with namesakes: a player of the away sheet carries the name of a  *)
(* player of the home sheet.  Names stay unique within each team.          *)
(***************************************************************************)
\* the table with the row of player old entered under the name new
registered_as(df, old, new) ==
    [i \in 1..Len(df) |-> IF df[i].Player = old THEN [df[i] EXCEPT !.Player = new] ELSE df[i]]

InitNamesakes ==
    /\ home_df \in {t \in TeamTables("Alfa") : Len(t) >= 2}
    /\ away_df \in {registered_as(t, "Riva", name) :
                       t \in {u \in TeamTables("Beta") : \E i \in 1..Len(u) : u[i].Player = "Riva"},
                       name \in {"Bianchi", "Verdi"}}
    /\ referee_df \in RefereeTables
    /\ WEIGHTS = WEIGHTS_INIT
    /\ session = [page |-> "none"]
    /\ result = <<>>
    /\ phase = "idle"
    /\ op = "none"

SpecNamesakes == InitNamesakes /\ [][phase = "idle" /\ Call]_vars

(***************************************************************************)
(* Properties.                                                             *)
(***************************************************************************)
Done == phase = "done"
Shortlist == result[1].top_4_predictions
Ranking == result[1].all_predictions
HomeTeam == home_df[1].Squadra
AwayTeam == away_df[1].Squadra

\* how many rows of seq belong to team
CountOf(seq, team) == Cardinality({i \in 1..Len(seq) : seq[i].Squadra = team})

\* the ranked rows of one team, best first
TeamRanking(team) == SelectSeq(Ranking, LAMBDA r : r.Squadra = team)

\* the naive top-4: the first four rows of the full ranking
NaiveTop4 == SubSeq(Ranking, 1, IF Len(Ranking) < 4 THEN Len(Ranking) ELSE 4)

\* 0.40 - 0.15 * |team aggression difference|, from the reported difference
StatedThreshold ==
    4000 - Div(15 * Abs(result[1].algorithm_summary.aggression_diff_factor), 100)

\* (risk of dom's 3rd-ranked player) - (risk of min's 2nd-ranked player) > threshold
GapExceedsThreshold(dom, min) ==
    /\ Len(TeamRanking(dom)) >= 3
    /\ Len(TeamRanking(min)) >= 2
    /\ ~IsNaN(TeamRanking(dom)[3].Rischio_Finale)
    /\ ~IsNaN(TeamRanking(min)[2].Rischio_Finale)
    /\ TeamRanking(dom)[3].Rischio_Finale - TeamRanking(min)[2].Rischio_Finale > StatedThreshold

\* x ranks strictly above y (a NaN risk ranks below every number)
RanksAbove(x, y) ==
    /\ ~IsNaN(x.Rischio_Finale)
    /\ IsNaN(y.Rischio_Finale) \/ x.Rischio_Finale > y.Rischio_Finale

\* the shortlisted rows of team are two, and no team-mate left out ranks above one of them
HasTopTwoOf(team) ==
    LET chosen == {e \in Range(Shortlist) : e.Squadra = team}
    IN  /\ Cardinality(chosen) = 2
        /\ chosen \subseteq Range(TeamRanking(team))
        /\ \A x \in Range(TeamRanking(team)) \ chosen : \A y \in chosen : ~RanksAbove(x, y)

TwoTeamsOfTwo == HomeTeam # AwayTeam /\ Len(home_df) >= 2 /\ Len(away_df) >= 2

\* C1: with two distinct teams of at least 2 players each, the shortlist has
\* exactly 4 entries and is split 2-2, or 3-1 / 1-3 with the dominant team's
\* 3rd risk exceeding the minority team's 2nd risk by more than
\* 0.40 - 0.15 * |aggression difference|; it is never 4-0 or 0-4.
C1_BalancedShortlist ==
    (Done /\ TwoTeamsOfTwo) =>
        /\ Len(Shortlist) = 4
        /\ \/ CountOf(Shortlist, HomeTeam) = 2 /\ CountOf(Shortlist, AwayTeam) = 2
           \/ /\ CountOf(Shortlist, HomeTeam) = 3 /\ CountOf(Shortlist, AwayTeam) = 1
              /\ GapExceedsThreshold(HomeTeam, AwayTeam)
           \/ /\ CountOf(Shortlist, HomeTeam) = 1 /\ CountOf(Shortlist, AwayTeam) = 3
              /\ GapExceedsThreshold(AwayTeam, HomeTeam)

\* a pool of two teams of at least 2 players whose naive top-4 is all one team
C1_Witness ==
    /\ Done /\ TwoTeamsOfTwo
    /\ CountOf(NaiveTop4, HomeTeam) = 4 \/ CountOf(NaiveTop4, AwayTeam) = 4

\* C2: whenever the combined pool has at least 4 players the shortlist has
\* exactly 4 entries, also when one team has fewer than 2 players.
C2_AlwaysFourEntries ==
    (Done /\ Len(home_df) + Len(away_df) >= 4) => Len(Shortlist) = 4

\* C3: when the naive top-4 is split 3-1 or 1-3, the minority team has at
\* least 2 players and the dominant 3rd risk does not exceed the minority 2nd
\* risk by more than the threshold, the shortlist is exactly the two
\* highest-risk players of each team.
C3_ForcedTwoTwo ==
    \A dom \in Teams : \A min \in Teams :
        ( /\ Done
          /\ dom # min
          /\ CountOf(NaiveTop4, dom) = 3 /\ CountOf(NaiveTop4, min) = 1
          /\ Len(TeamRanking(min)) >= 2
          /\ ~GapExceedsThreshold(dom, min) )
        => /\ Len(Shortlist) = 4
           /\ HasTopTwoOf(dom)
           /\ HasTopTwoOf(min)

\* a 3-1 naive top-4 that was turned into the two best of each team
C3_Witness ==
    \E dom \in Teams : \E min \in Teams :
        /\ Done
        /\ dom # min
        /\ CountOf(NaiveTop4, dom) = 3 /\ CountOf(NaiveTop4, min) = 1
        /\ Len(TeamRanking(min)) >= 2
        /\ ~GapExceedsThreshold(dom, min)
        /\ CountOf(Shortlist, dom) = 2

\* C4: every row of all_predictions has a defined Rischio_Finale with
\* 0.01 <= Rischio_Finale <= 0.95.
C4_RiskInBand ==
    Done => \A i \in 1..Len(Ranking) :
                /\ ~IsNaN(Ranking[i].Rischio_Finale)
                /\ Ranking[i].Rischio_Finale >= 100
                /\ Ranking[i].Rischio_Finale <= 9500

InUnitInterval(x) == ~IsNaN(x) /\ x >= 0 /\ x <= Unit

\* the cards of the rows with 90s played > 0 add up to zero (average 0)
ZeroAverageCards ==
    \A i \in 1..Len(Ranking) : Ranking[i].G90s_Giocati > 0 => Ranking[i].Cartellini_Gialli = 0

\* C5: each of the four sub-scores is a defined value in [0,1], a zero
\* denominator (90s per card, fouls per card, average cards of the pool)
\* gives the sub-score 0, and Historical_Risk is in [0,1].
C5_SubScoresDefined ==
    Done => \A i \in 1..Len(Ranking) :
                LET row == Ranking[i]
                IN  /\ InUnitInterval(row.Card_Frequency_Score)
                    /\ InUnitInterval(row.Impulsivity_Score)
                    /\ InUnitInterval(row.Speed_Score)
                    /\ InUnitInterval(row.Volume_Score)
                    /\ InUnitInterval(row.Historical_Risk)
                    /\ row.M90s_per_Cartellino = 0 => row.Card_Frequency_Score = 0
                    /\ row.Falli_per_Cartellino = 0 => row.Impulsivity_Score = 0
                    /\ ZeroAverageCards => row.Volume_Score = 0

\* C6: every returned matchup has aggressor_team # victim_team.
C6_OpposingTeams ==
    Done => \A i \in 1..Len(result[1].critical_matchups) :
                result[1].critical_matchups[i].aggressor_team
                    # result[1].critical_matchups[i].victim_team

\* a call that returned at least one matchup
C6_Witness == Done /\ Len(result[1].critical_matchups) > 0

\* C7: a player whose 90s played are below the eligibility threshold (5)
\* appears neither in all_predictions nor in top_4_predictions.
C7_IneligibleExcluded ==
    Done => /\ \A i \in 1..Len(Ranking) : Ranking[i].G90s_Giocati >= MIN_90S_AGGRESSION
            /\ \A i \in 1..Len(Shortlist) : Shortlist[i].G90s_Giocati >= MIN_90S_AGGRESSION

PoolPlayers(h, a) == {player_of(r) : r \in Range(h) \cup Range(a)}

\* C9: after a shortlisted player is removed from the pool and the
\* prediction recomputed, the shortlist does not contain that player and all
\* its entries are players of the remaining pool; the pool never grows back.
C9_ExclusionRespected ==
    [][ (op' = "exclude" /\ phase' = "done")
        => LET removed == PoolPlayers(home_df, away_df) \ PoolPlayers(home_df', away_df')
               shortlisted == {player_of(e) : e \in Range(result'[1].top_4_predictions)}
           IN  /\ removed # {}
               /\ removed \subseteq {player_of(e) : e \in Range(result[1].top_4_predictions)}
               /\ PoolPlayers(home_df', away_df') \subseteq PoolPlayers(home_df, away_df)
               /\ shortlisted \cap removed = {}
               /\ shortlisted \subseteq PoolPlayers(home_df', away_df') ]_vars

\* a shortlist recomputed after an exclusion
C9_Witness == Done /\ op = "exclude"

\* C10: the shortlist the dashboard shows is never all of one team when
\* both selected teams have at least 2 players.
C10_DashboardNeverFourZero ==
    (Done /\ TwoTeamsOfTwo) =>
        ~(CountOf(Shortlist, HomeTeam) = 4 \/ CountOf(Shortlist, AwayTeam) = 4)

\* C11: the severity label returned is strict for a referee average of 5.2,
\* permissive for 3.5 and medium for 4.2: strict above 4.8, permissive below
\* 3.8, medium otherwise.
C11_SeverityLabels ==
    (Done /\ referee_df # <<>>) =>
        LET avg == referee_df[1].Gialli_a_partita
            stated == IF avg > 48000 THEN "strict"
                      ELSE IF avg < 38000 THEN "permissive"
                      ELSE "medium"
        IN  /\ result[1].referee_profile.severity_level = stated
            /\ v3_severity_level(avg) = stated
            /\ avg = 52000 => stated = "strict"
            /\ avg = 35000 => stated = "permissive"
            /\ avg = 42000 => stated = "medium"

\* the shares of the returned matchups that touch the player of a row:
\* 0.5 * risk_score where the row is the aggressor, 0.3 * risk_score where
\* it is the victim (a player is a name in a team)
SharesOf(row) ==
    LET ms == Range(result[1].critical_matchups)
    IN  {Pct(m.risk_score, 50) : m \in {x \in ms : x.aggressor_player = row.Player
                                                   /\ x.aggressor_team = row.Squadra}}
        \cup {Pct(m.risk_score, 30) : m \in {x \in ms : x.victim_player = row.Player
                                                        /\ x.victim_team = row.Squadra}}

\* the largest share, 0 for a player no matchup touches
StatedBonus(row) ==
    IF SharesOf(row) = {} THEN 0
    ELSE IF \E x \in SharesOf(row) : IsNaN(x) THEN NaN
    ELSE CHOOSE x \in SharesOf(row) : \A y \in SharesOf(row) : y <= x

\* C12: before normalization the bonus of each player is the maximum, over
\* the returned matchups touching that player, of 0.5 * risk_score as
\* aggressor and 0.3 * risk_score as victim; shares are never summed and the
\* victim's share of a pair is 60% of the aggressor's.
C12_BonusIsMaximumShare ==
    Done => /\ \A i \in 1..Len(Ranking) :
                  matchup_bonus(result[1].critical_matchups, 1, Ranking[i].Player, 0)
                      = StatedBonus(Ranking[i])
            /\ \A m \in Range(result[1].critical_matchups) :
                  ~IsNaN(m.risk_score) =>
                      Abs(Pct(m.risk_score, 30) * 100 - Pct(m.risk_score, 50) * 60) < 100

\* C13: after normalization every Matchup_Bonus lies in [0, 0.4]; when at
\* least one critical matchup was found the largest bonus of the pool is
\* exactly 0.4, and when none was found every bonus is 0.
C13_BonusNormalized ==
    Done => /\ \A i \in 1..Len(Ranking) :
                  /\ ~IsNaN(Ranking[i].Matchup_Bonus)
                  /\ Ranking[i].Matchup_Bonus >= 0
                  /\ Ranking[i].Matchup_Bonus <= 4000
            /\ result[1].critical_matchups # <<>> =>
                  \E i \in 1..Len(Ranking) : Ranking[i].Matchup_Bonus = 4000
            /\ result[1].critical_matchups = <<>> =>
                  \A i \in 1..Len(Ranking) : Ranking[i].Matchup_Bonus = 0

Matchups == result[1].critical_matchups

\* the candidate pairs of one direction: a selected victim of one table, a
\* selected aggressor of the other, of different teams, compatible enough
CandidatesOf(victim_table, aggressor_table) ==
    {c \in Range(select_victims(victim_table)) \X Range(select_aggressors(aggressor_table)) :
        /\ c[1].Squadra # c[2].Squadra
        /\ total_compat(calculate_zone_compatibility(c[1].Zona_Campo, c[2].Zona_Campo),
                        calculate_role_compatibility(c[1].Ruolo, c[2].Ruolo)) >= 5000}

\* the candidate pairs of both directions
Candidates == CandidatesOf(home_df, away_df) \cup CandidatesOf(away_df, home_df)

\* matchup m is the duel of victim c[1] and aggressor c[2]
IsDuelOf(m, c) ==
    /\ m.victim_player = c[1].Player /\ m.victim_team = c[1].Squadra
    /\ m.aggressor_player = c[2].Player /\ m.aggressor_team = c[2].Squadra

Returned(c) == \E i \in 1..Len(Matchups) : IsDuelOf(Matchups[i], c)

\* C14: at most 10 matchups are returned, in non-increasing order of
\* risk_score, and they are the highest-scoring candidate pairs of both
\* directions: a candidate left out scores no more than the last returned.
C14_TopTenOfBothDirections ==
    Done => /\ Len(Matchups) <= 10
            /\ \A i, j \in 1..Len(Matchups) :
                  i < j => ~(Matchups[j].risk_score > Matchups[i].risk_score)
            /\ \A i \in 1..Len(Matchups) : \E c \in Candidates : IsDuelOf(Matchups[i], c)
            /\ \A c \in Candidates :
                  \/ Returned(c)
                  \/ /\ Len(Matchups) = 10
                     /\ make_matchup(c[1], c[2]).risk_score <= Matchups[10].risk_score

\* more than 10 candidate pairs, of both directions, and 10 returned
C14_Witness ==
    /\ Done /\ op = "matchups"
    /\ Cardinality(Candidates) > 10
    /\ CandidatesOf(home_df, away_df) # {} /\ CandidatesOf(away_df, home_df) # {}
    /\ Len(Matchups) = 10

\* the rows of the table of a team that carry a player name
RowsOf(team, name) ==
    {r \in Range(IF HomeTeam = team THEN home_df ELSE away_df) : r.Player = name}

AggressorFilter(r) == r.Ruolo \in {"DEF", "MID"} /\ r.Falli_Fatti_90s >= 15000

VictimFilter(r) == r.Ruolo \in {"ATT", "MID"} /\ r.Falli_Subiti_90s >= 10000

\* fewer than 8 team-mates that pass the aggressor filter commit more fouls
AmongTopAggressors(r) ==
    Cardinality({x \in Range(IF HomeTeam = r.Squadra THEN home_df ELSE away_df) :
                    AggressorFilter(x) /\ x.Falli_Fatti_90s > r.Falli_Fatti_90s}) < 8

\* fewer than 8 team-mates that pass the victim filter suffer more fouls
AmongTopVictims(r) ==
    Cardinality({x \in Range(IF HomeTeam = r.Squadra THEN home_df ELSE away_df) :
                    VictimFilter(x) /\ x.Falli_Subiti_90s > r.Falli_Subiti_90s}) < 8

\* C15: in every returned matchup the aggressor is a DEF or MID with at
\* least 1.5 fouls committed per 90 among the 8 highest such foul-committers
\* of its team, and the victim is an ATT or MID with at least 1.0 fouls
\* suffered per 90 among the 8 most fouled such players of its team.
C15_CandidatesFiltered ==
    Done => \A i \in 1..Len(Matchups) :
                /\ \E a \in RowsOf(Matchups[i].aggressor_team, Matchups[i].aggressor_player) :
                      AggressorFilter(a) /\ AmongTopAggressors(a)
                /\ \E v \in RowsOf(Matchups[i].victim_team, Matchups[i].victim_player) :
                      VictimFilter(v) /\ AmongTopVictims(v)

\* matchups were returned for a team with more than 8 rows passing the
\* aggressor filter and a team with more than 8 rows passing the victim filter
C15_Witness ==
    /\ Done /\ op = "matchups" /\ Matchups # <<>>
    /\ \E t \in {home_df, away_df} : Cardinality({x \in Range(t) : AggressorFilter(x)}) > 8
    /\ \E t \in {home_df, away_df} : Cardinality({x \in Range(t) : VictimFilter(x)}) > 8

\* the combined compatibility of a returned duel, 0.70 * zone + 0.30 * role
StatedCompat(zone_compat, role_compat) == (70 * zone_compat + 30 * role_compat) \div 100

\* one call of _match_players: every duel is compatible enough, and every
\* victim/aggressor pair of different teams that is compatible enough is a duel
MatchPlayersComplete(duels, victim_table, aggressor_table) ==
    /\ \A i \in 1..Len(duels) :
          StatedCompat(duels[i].zone_compatibility, duels[i].role_compatibility) >= 5000
    /\ \A v \in Range(select_victims(victim_table)) :
          \A a \in Range(select_aggressors(aggressor_table)) :
              ( /\ v.Squadra # a.Squadra
                /\ StatedCompat(calculate_zone_compatibility(v.Zona_Campo, a.Zona_Campo),
                                calculate_role_compatibility(v.Ruolo, a.Ruolo)) >= 5000 )
              => \E i \in 1..Len(duels) : IsDuelOf(duels[i], <<v, a>>)

\* C16: every pair returned by _match_players has combined compatibility
\* 0.70 * zone + 0.30 * role >= 0.5, and every opposing victim/aggressor
\* pair with combined compatibility >= 0.5 is returned.
C16_CompatiblePairsReturned ==
    (Done /\ op = "matchups") =>
        /\ MatchPlayersComplete(result[1].home_victim_duels, home_df, away_df)
        /\ MatchPlayersComplete(result[1].away_victim_duels, away_df, home_df)

\* C17: for any fixed pair of roles, in both compatibility functions a
\* mirrored opposite-flank pair (Left vs Right) scores at least as high as
\* every other pair of zones, and a same-flank pair scores strictly lower
\* than the mirrored pair.
C17_MirroredFlanksHighest ==
    (Done /\ op = "compat") =>
        LET r == result[1]
            same_flank == r.zone1 = r.zone2 /\ r.zone1 \in {"L", "R"}
            v3_same_flank == r.v3_zone1 = r.v3_zone2 /\ r.v3_zone1 \in {"Left Flank", "Right Flank"}
            v3_mirrored ==
                {v3_calculate_positional_matchup_probability("Left Flank", "Right Flank", r.role1, r.role2),
                 v3_calculate_positional_matchup_probability("Right Flank", "Left Flank", r.role1, r.role2)}
            mirrored == {calculate_zone_compatibility("L", "R"), calculate_zone_compatibility("R", "L")}
        IN  /\ \A m \in mirrored : r.zone_compatibility <= m
            /\ same_flank => \A m \in mirrored : r.zone_compatibility < m
            /\ \A m \in v3_mirrored : r.matchup_probability <= m
            /\ v3_same_flank => \A m \in v3_mirrored : r.matchup_probability < m

\* (referee average / 4.2) clipped to [0.7, 1.4]
StatedRefereeFactor(avg) ==
    LET f == (avg * Unit) \div 42000
    IN  IF f < 7000 THEN 7000 ELSE IF f > 14000 THEN 14000 ELSE f

\* the final risk of the player of a row in a returned ranking
RiskIn(ranking, row) ==
    LET i == CHOOSE i \in 1..Len(ranking) : player_of(ranking[i]) = player_of(row)
    IN  ranking[i].Rischio_Finale

\* C18: the referee factor is (referee average / 4.2) clipped to [0.7, 1.4],
\* and exactly 1.0 for an empty referee table; when the same pool is
\* predicted again under a referee with a higher average, no player's final
\* risk decreases.
C18_RefereeFactor ==
    [][ phase' = "done" =>
          /\ result'[1].referee_profile.strictness_factor
                = IF referee_df' = <<>> THEN Unit
                  ELSE StatedRefereeFactor(referee_df'[1].Gialli_a_partita)
          /\ ( /\ op' = "referee" /\ referee_df # <<>>
               /\ referee_df'[1].Gialli_a_partita > referee_df[1].Gialli_a_partita )
             => \A i \in 1..Len(result[1].all_predictions) :
                    LET row == result[1].all_predictions[i]
                    IN  ~(RiskIn(result'[1].all_predictions, row) < row.Rischio_Finale) ]_vars

\* a pool predicted again under another referee, whose factor is not clipped
C18_Witness ==
    /\ Done /\ op = "referee"
    /\ result[1].referee_profile.strictness_factor > 7000
    /\ result[1].referee_profile.strictness_factor < 14000

\* the role the specification gives a position cell
StatedRole(cell) ==
    LET code == Upper(IF cell = MissingText THEN <<>> ELSE cell)
    IN  IF code = <<"G","K">> THEN "Goalkeeper"
        ELSE IF code \in {<<"C","B">>, <<"L","B">>, <<"R","B">>, <<"L","W","B">>,
                          <<"R","W","B">>, <<"W","B">>} THEN "Defender"
        ELSE IF code \in {<<"L","W">>, <<"R","W">>, <<"F","W">>, <<"C","F">>, <<"S","T">>}
             THEN "Attacker"
        ELSE "Midfielder"

\* the four roles under the names of the optimized model and of the others
RoleNamed(role) ==
    CASE role = "GK" -> "Goalkeeper"
      [] role = "DEF" -> "Defender"
      [] role = "MID" -> "Midfielder"
      [] role = "ATT" -> "Attacker"
      [] OTHER -> role

\* C19: every variant of the role function maps a position code to one of
\* the four roles: GK to Goalkeeper; CB, LB, RB, LWB, RWB, WB to Defender;
\* LW, RW, FW, CF, ST to Attacker; every other code (CM, DM, AM, MF, empty)
\* to Midfielder.
C19_RoleOfPosition ==
    (Done /\ op = "role") =>
        /\ RoleNamed(result[1].role) \in {"Goalkeeper", "Defender", "Midfielder", "Attacker"}
        /\ RoleNamed(result[1].role) = StatedRole(result[1].position)

\* a cell the specification calls parseable as a number: a number, or a
\* text made of digits only
StatedParseable(cell) ==
    \/ "number" \in DOMAIN cell
    \/ /\ "text" \in DOMAIN cell
       /\ cell.text # <<>>
       /\ \A i \in 1..Len(cell.text) : cell.text[i] \in Range(Digits)

\* out is the table the specification asks for the sheet df
NormalizedFrom(df, out) ==
    /\ Len(out) = Len(df)
    /\ \A i \in 1..Len(df) :
          /\ EssentialColumns \subseteq DOMAIN out[i]
          /\ \A e \in Range(essential_numeric) :
                IF e.col \in DOMAIN df[i] /\ StatedParseable(df[i][e.col])
                THEN /\ ~IsNaN(out[i][e.col])
                     /\ "number" \in DOMAIN df[i][e.col] => out[i][e.col] = df[i][e.col].number
                ELSE out[i][e.col] = e.default
          /\ out[i].Zona_Campo \in {"L", "R", "C"}
          /\ out[i].Ruolo \in {"ATT", "DEF", "GK", "MID"}

StatedOdds(risk) ==
    LET odds == Div(4500 * Unit, risk)
    IN  IF odds < 15000 THEN 15000 ELSE IF odds > 200000 THEN 200000 ELSE odds

\* C21: every player's Quota_Stimata is 0.45 / Rischio_Finale clipped to
\* [1.5, 20.0]: it lies in that band, and a player with higher risk never
\* has higher odds.  (A row whose risk is undefined is quoted 20.0.)
C21_FairOdds ==
    Done => /\ \A i \in 1..Len(Ranking) :
                  /\ Ranking[i].Quota_Stimata >= 15000
                  /\ Ranking[i].Quota_Stimata <= 200000
                  /\ ~IsNaN(Ranking[i].Rischio_Finale) =>
                         Ranking[i].Quota_Stimata = StatedOdds(Ranking[i].Rischio_Finale)
            /\ \A i, j \in 1..Len(Ranking) :
                  ( /\ ~IsNaN(Ranking[i].Rischio_Finale)
                    /\ ~IsNaN(Ranking[j].Rischio_Finale)
                    /\ Ranking[i].Rischio_Finale > Ranking[j].Rischio_Finale )
                  => Ranking[i].Quota_Stimata <= Ranking[j].Quota_Stimata

\* a ranking with odds at the lower end of the band, odds inside the band
\* and odds at its upper end
C21_Witness ==
    /\ Done
    /\ \E i, j, k \in 1..Len(Ranking) :
          /\ Ranking[i].Quota_Stimata = 15000 /\ Ranking[i].Rischio_Finale > 3000
          /\ Ranking[j].Quota_Stimata > 15000 /\ Ranking[j].Quota_Stimata < 200000
          /\ Ranking[k].Quota_Stimata = 200000 /\ ~IsNaN(Ranking[k].Rischio_Finale)


\* the guards under which the dashboard may call the model
MayPredict(s) ==
    LET data == load_excel_data(s.file)
    IN  /\ data # <<>>
        /\ s.home # Placeholder /\ s.away # Placeholder /\ s.ref # Placeholder
        /\ s.home # s.away
        /\ \E r \in Range(data[1].players) : r.Squadra = s.home
        /\ \E r \in Range(data[1].players) : r.Squadra = s.away

\* C22: over any sequence of interactions the model is invoked only when
\* the data loaded, a home team, an away team and a referee are selected,
\* the teams differ and both team tables are non-empty; in every other
\* state the request ends in an error or an info state and no ranking is
\* computed or shown.
C22_PredictOnlyWhenGuarded ==
    /\ op = "predict" => (MayPredict(session) /\ session.page = "Predizione")
    /\ result # <<>> => op = "predict"
    /\ (session.page = "Predizione" /\ ~MayPredict(session)) =>
           (phase \in {"error", "info"} /\ result = <<>> /\ op = "request")

\* a request of the prediction page with a referee and the same team twice
C22_Witness ==
    /\ session.page = "Predizione"
    /\ session.home = session.away /\ session.home # Placeholder /\ session.ref # Placeholder
    /\ phase = "error"


\* the team dom is the more aggressive one: the reported aggression
\* difference factor is positive for the home team, negative for the away team
MoreAggressive(dom) ==
    IF dom = HomeTeam THEN result[1].algorithm_summary.aggression_diff_factor > 0
    ELSE result[1].algorithm_summary.aggression_diff_factor < 0

\* C23: a 3-1 (or 1-3) shortlist is accepted only if the risk gap exceeds
\* the dynamic threshold and the team with three players is also the more
\* aggressive team; otherwise the split is 2-2.
C23_CoherentThreeOne ==
    \A dom \in Teams : \A min \in Teams :
        ( /\ Done /\ TwoTeamsOfTwo
          /\ dom \in {HomeTeam, AwayTeam} /\ min \in {HomeTeam, AwayTeam} /\ dom # min
          /\ CountOf(Shortlist, dom) = 3 /\ CountOf(Shortlist, min) = 1 )
        => (GapExceedsThreshold(dom, min) /\ MoreAggressive(dom))


\* no row of the table has at least 5 90s played
NoRegular(df) == \A i \in 1..Len(df) : df[i].G90s_Giocati < 5

\* C28: the aggression difference factor lies in [-1, 1], is negated when
\* home and away are swapped, is 0 when either team has no player with at
\* least 5 90s played, and the 3-1 threshold 0.40 - 0.15 * |difference|
\* lies in [0.25, 0.40].
C28_AggressionFactor ==
    [][(op' \in {"predict", "swap"}) =>
          LET factor == result'[1].algorithm_summary.aggression_diff_factor
              threshold == result'[1].algorithm_summary.dynamic_risk_threshold_applied
          IN  /\ factor >= 0 - Unit /\ factor <= Unit
              /\ (NoRegular(home_df') \/ NoRegular(away_df')) => factor = 0
              /\ threshold = 4000 - Div(15 * Abs(factor), 100)
              /\ threshold >= 2500 /\ threshold <= 4000
              /\ op' = "swap" =>
                     factor = 0 - result[1].algorithm_summary.aggression_diff_factor]_vars

\* the sides were swapped on a pool with a difference in aggression that
\* lowers the threshold by more than 0.10
C28_Witness ==
    /\ Done /\ op = "swap"
    /\ result[1].algorithm_summary.aggression_diff_factor > 7000
    /\ result[1].algorithm_summary.dynamic_risk_threshold_applied < 3000


\* C24: the simulated model of app.py never reports a critical matchup
\* whose aggressor and victim belong to the same team, for any pool of at
\* least 12 players.
C24_SimulatedOpposingTeams ==
    (Done /\ op = "simulated" /\ Len(home_df) + Len(away_df) >= 12) =>
        \A m \in Range(result[1].critical_matchups) : m.aggressor_team # m.victim_team


\* the shortlisted rows of team are the first k rows of the team's own
\* ranking, for some k
IsPrefixOf(team) ==
    LET chosen == SelectSeq(Shortlist, LAMBDA r : r.Squadra = team)
    IN  /\ Len(chosen) <= Len(TeamRanking(team))
        /\ \A x \in Range(TeamRanking(team)) :
              (\A c \in Range(chosen) : c # x) =>
                  \A c \in Range(chosen) : ~RanksAbove(x, c)
        /\ Range(chosen) \subseteq Range(TeamRanking(team))

\* C25: in every branch of the rebalancing rule the shortlisted players of
\* each team are that team's k highest-risk players for some k (no player is
\* shortlisted while a team-mate with strictly higher risk is left out), and
\* top_4_predictions is in non-increasing order of Rischio_Finale.
C25_PrefixAndOrder ==
    (Done /\ HomeTeam # AwayTeam) =>
        /\ IsPrefixOf(HomeTeam)
        /\ IsPrefixOf(AwayTeam)
        /\ \A i \in 1..(Len(Shortlist) - 1) :
              ~RanksAbove(Shortlist[i + 1], Shortlist[i])


\* a pool whose naive top-4 was rebalanced, with a player of each team left
\* out of the shortlist
C25_Witness ==
    /\ Done /\ HomeTeam # AwayTeam
    /\ Range(Shortlist) # Range(NaiveTop4)
    /\ CountOf(Shortlist, HomeTeam) < Len(home_df)
    /\ CountOf(Shortlist, AwayTeam) < Len(away_df)


\* player names are unique within each team of the pool
NamesUniqueInTeam ==
    \A i, j \in 1..Len(Ranking) :
        (i # j /\ Ranking[i].Squadra = Ranking[j].Squadra) => Ranking[i].Player # Ranking[j].Player

\* C26: with names unique within a team, a player who is neither aggressor
\* nor victim of any returned critical matchup has Matchup_Bonus = 0.
C26_NoMatchupNoBonus ==
    (Done /\ NamesUniqueInTeam) =>
        \A i \in 1..Len(Ranking) : SharesOf(Ranking[i]) = {} => Ranking[i].Matchup_Bonus = 0


\* the two players of a matchup, each a name in a team
PairOf(m) ==
    {[Player |-> m.victim_player, Squadra |-> m.victim_team],
     [Player |-> m.aggressor_player, Squadra |-> m.aggressor_team]}

\* C27: no unordered pair of players appears in more than one matchup
\* returned by _identify_critical_matchups, whichever of the two is the
\* victim and whichever direction the matchup comes from.
C27_NoPairTwice ==
    (Done /\ op = "matchups") =>
        \A i, j \in 1..Len(result[1].critical_matchups) :
            i # j => PairOf(result[1].critical_matchups[i]) # PairOf(result[1].critical_matchups[j])


\* C29: in the ranking of the v2 model every Rischio_Finale lies in
\* [0.01, 0.6] and the highest-risk player of the pool has exactly 0.6.
C29_V2RiskRescaled ==
    (Done /\ op = "predict") =>
        /\ \A i \in 1..Len(Ranking) :
              Ranking[i].Rischio_Finale >= 100 /\ Ranking[i].Rischio_Finale <= 6000
        /\ \E i \in 1..Len(Ranking) :
              /\ Ranking[i].Rischio_Finale = 6000
              /\ \A j \in 1..Len(Ranking) : Ranking[j].Rischio_Finale <= Ranking[i].Rischio_Finale

\* a v2 ranking whose rescaled risks reach from below 0.05 up to 0.6
C29_Witness ==
    /\ Done /\ op = "predict"
    /\ \E i \in 1..Len(Ranking) : Ranking[i].Rischio_Finale < 500
    /\ \E i \in 1..Len(Ranking) : Ranking[i].Rischio_Finale = 6000


\* the names of a v2 matchup
NamesOf(m) == {m.aggressor_player, m.victim_player}

\* C30: find_critical_matchups of the v2 model returns at most six
\* matchups in non-increasing risk_score; no player name is in more than
\* one of them; aggressor and victim come from opposing sides; and no
\* matchup sets a Defender against a Defender.
C30_V2Matchups ==
    (Done /\ op = "v2_matchups") =>
        LET cm == result[1].critical_matchups
        IN  /\ Len(cm) <= 6
            /\ \A i \in 1..Len(cm), j \in 1..Len(cm) :
                  /\ i < j => cm[i].risk_score >= cm[j].risk_score
                  /\ i # j => NamesOf(cm[i]) \cap NamesOf(cm[j]) = {}
            /\ \A i \in 1..Len(cm) :
                  /\ cm[i].aggressor_team # cm[i].victim_team
                  /\ ~(cm[i].aggressor_role = "Defender" /\ cm[i].victim_role = "Defender")

\* six matchups are returned, of different risk scores, on squads that
\* share their player names
C30_Witness ==
    /\ Done /\ op = "v2_matchups"
    /\ Len(result[1].critical_matchups) = 6
    /\ result[1].critical_matchups[1].risk_score > result[1].critical_matchups[6].risk_score
    /\ home_df[1].Player = away_df[1].Player

====
